---------------------------- MODULE Spec2Model ----------------------------
(***************************************************************************)
(* Model of the PDF "bordereau" extraction pipeline of Appli-Extraction    *)
(* (root modules utils.py, extractors.py, processors.py,                   *)
(* csv_operations.py, config.py, with the package variants under src/src   *)
(* where they differ).                                                     *)
(*                                                                         *)
(* Python strings are TLA+ strings; TLC evaluates Len, Head, Tail, SubSeq  *)
(* and \o on them, so formatting, parsing, stripping and searching are     *)
(* computed character by character.  A DataFrame is a record               *)
(* [none, columns, rows]: columns is the sequence of header names and      *)
(* rows the sequence of rows, each a sequence of cells aligned on columns. *)
(***************************************************************************)
EXTENDS Integers, Sequences, FiniteSets, TLC

(***************************************************************************)
(* Bounds of the model.                                                    *)
(***************************************************************************)
MaxPage == 10
MaxListLen == 3
MaxHeaderCols == 3
MaxCellCols == 6
MaxCellRows == 2
MaxTables == 2
MaxTableRows == 4
MaxTotalPages == 10
MaxCovPage == 5
MaxCleanRows == 2
MaxPdfPages == 3
MaxFiles == 3
MaxLines == 2
MaxDocPages == 2

(***************************************************************************)
(* State.  Each component of the pipeline is exercised by a specification  *)
(* of its own, which leaves the variables of the other components alone.   *)
(***************************************************************************)
VARIABLES
    \* PageRangeCodec
    pages_list,     \* the list of page numbers handed to the grouping
    plages,         \* the tokens it returned
    all_pages,      \* parse_multiple_ranges(plages)
    regrouped,      \* the tokens of a second grouping, of all_pages
    page_range,     \* one token handed to parse_range
    range_result,   \* what parse_range did with it
    codec_pc,
    \* CategoryAssembler
    pdf_filename,
    category_name,
    df_category,    \* the table process_category returned (not None, not empty)
    df_columns,     \* after _process_dataframe_columns
    df_metadata,    \* after _add_metadata_columns
    df_prepared,    \* after _clean_and_filter_data: the table appended to all_dataframes
    asm_raised,     \* an exception left process_all_categories
    asm_pc,
    \* DatasetConsolidator
    dataframes_list,    \* the tables to consolidate
    merged_df,          \* what _concatenate_all_dataframes returned
    final_csv,          \* the merged_df of the tuple _create_final_csv returned
    global_csv,         \* what create_global_csv returned
    conc_pc,
    \* CoverageReporter
    total_pages,            \* len(lecteur_pdf.pages)
    pdf_unreadable,         \* opening or reading the PDF raises
    dictionnaire_plages,    \* category -> range tokens
    coverage_info,
    cov_pc,
    \* TableCleaner
    rules,          \* cleaning_rules
    df_extracted,   \* the table handed to clean_dataframe
    df_clean,       \* clean_dataframe(df_extracted)
    df_clean_again, \* clean_dataframe(df_clean)
    clean_pc,
    \* CategoryLocator
    pdf_text,       \* page.extract_text() of every page of the document
    locator_result, \* what creer_dictionnaire_plages_mots_cles returned
    loc_pc,
    \* Batch of uploaded files (process_uploaded_files)
    uploaded_files,     \* the files of the batch, in upload order
    file_index,         \* the number of files the loop has gone through
    all_results,        \* dict pdf name -> result, in insertion order
    total_success,
    global_csv_data,    \* what create_global_csv(all_results) returned
    total_processed,    \* st.session_state.total_processed
    batch_pc,
    \* MetadataParser (_extract_bordereau_a5_details)
    lignes,         \* texte_page.split('\n')
    ligne_index,    \* the number of lines the loop has gone through
    postes,         \* the local variables the loop assigns
    valeurs_postes, \* the row of values broadcast on the table
    a5_pc,
    \* Document (process_all_categories on the pages of one PDF)
    pdf_pages,          \* what the extraction primitives give for every page
    page_ranges_dict,   \* dict category -> range tokens, in insertion order
    category_index,     \* the number of categories the loop has gone through
    tables_log,         \* per category gone through, what extract_ranges returned
    combined_log,       \* per category, what process_category returned
    repaired_log,       \* per category, what _process_dataframe_columns gave
    all_dataframes,
    processing_results, \* dict category -> record, in insertion order
    success_count,
    doc_return,         \* the tuple process_all_categories returned
    doc_raised,         \* an exception left process_all_categories
    doc_pc

codecVars == <<pages_list, plages, all_pages, regrouped, page_range,
               range_result, codec_pc>>

asmVars == <<pdf_filename, category_name, df_category, df_columns, df_metadata,
             df_prepared, asm_raised, asm_pc>>

concVars == <<dataframes_list, merged_df, final_csv, global_csv, conc_pc>>

covVars == <<total_pages, pdf_unreadable, dictionnaire_plages, coverage_info, cov_pc>>

cleanVars == <<rules, df_extracted, df_clean, df_clean_again, clean_pc>>

locVars == <<pdf_text, locator_result, loc_pc>>

a5Vars == <<lignes, ligne_index, postes, valeurs_postes, a5_pc>>

docVars == <<pdf_pages, page_ranges_dict, category_index, tables_log, combined_log,
             repaired_log, all_dataframes, processing_results, success_count, doc_return,
             doc_raised, doc_pc>>

batchVars == <<uploaded_files, file_index, all_results, total_success,
               global_csv_data, total_processed, batch_pc>>

vars == <<codecVars, asmVars, concVars, covVars, cleanVars, locVars, batchVars, a5Vars, docVars>>

codecOthers == <<asmVars, concVars, covVars, cleanVars, locVars, batchVars, a5Vars, docVars>>

asmOthers == <<codecVars, concVars, covVars, cleanVars, locVars, batchVars, a5Vars, docVars>>

concOthers == <<codecVars, asmVars, covVars, cleanVars, locVars, batchVars, a5Vars, docVars>>

covOthers == <<codecVars, asmVars, concVars, cleanVars, locVars, batchVars, a5Vars, docVars>>

cleanOthers == <<codecVars, asmVars, concVars, covVars, locVars, batchVars, a5Vars, docVars>>

locOthers == <<codecVars, asmVars, concVars, covVars, cleanVars, batchVars, a5Vars, docVars>>

a5Others == <<codecVars, asmVars, concVars, covVars, cleanVars, locVars, batchVars, docVars>>

docOthers == <<codecVars, asmVars, concVars, covVars, cleanVars, locVars, batchVars, a5Vars>>

batchOthers == <<codecVars, asmVars, concVars, covVars, cleanVars, locVars, a5Vars, docVars>>

(***************************************************************************)
(* Python string primitives.                                               *)
(***************************************************************************)
\* Python None / pandas NaN in a cell or a header: a reserved value that no
\* extracted text equals.
NONE == "<None>"

DigitChars == <<"0", "1", "2", "3", "4", "5", "6", "7", "8", "9">>

IsDigit(c) == \E d \in 1..10 : DigitChars[d] = c

DigitVal(c) == (CHOOSE d \in 1..10 : DigitChars[d] = c) - 1

\* str.isspace() of one character, for the whitespace the texts can hold.
IsSpace(c) == c \in {" ", "\t", "\n", "\r"}

\* str(n) / f"{n}" of an int.
RECURSIVE NatToStr(_)
NatToStr(n) ==
    IF n < 10 THEN DigitChars[n + 1]
    ELSE NatToStr(n \div 10) \o DigitChars[(n % 10) + 1]

IntToStr(n) == IF n < 0 THEN "-" \o NatToStr(0 - n) ELSE NatToStr(n)

\* str.lstrip(), str.rstrip(), str.strip() with no argument.
RECURSIVE LStrip(_)
LStrip(s) ==
    IF Len(s) = 0 THEN s
    ELSE IF IsSpace(Head(s)) THEN LStrip(Tail(s)) ELSE s

RECURSIVE RStrip(_)
RStrip(s) ==
    IF Len(s) = 0 THEN s
    ELSE IF IsSpace(SubSeq(s, Len(s), Len(s)))
         THEN RStrip(SubSeq(s, 1, Len(s) - 1))
         ELSE s

Strip(s) == RStrip(LStrip(s))

UpperChars == <<"A", "B", "C", "D", "E", "F", "G", "H", "I", "J", "K", "L", "M",
                "N", "O", "P", "Q", "R", "S", "T", "U", "V", "W", "X", "Y", "Z",
                "É", "È", "À">>

LowerChars == <<"a", "b", "c", "d", "e", "f", "g", "h", "i", "j", "k", "l", "m",
                "n", "o", "p", "q", "r", "s", "t", "u", "v", "w", "x", "y", "z",
                "é", "è", "à">>

LowerChar(c) ==
    IF \E k \in 1..Len(UpperChars) : UpperChars[k] = c
    THEN LowerChars[CHOOSE k \in 1..Len(UpperChars) : UpperChars[k] = c]
    ELSE c

\* str.lower().
RECURSIVE Lower(_)
Lower(s) ==
    IF Len(s) = 0 THEN s
    ELSE LowerChar(Head(s)) \o Lower(Tail(s))

\* s.startswith(prefix).
StartsWith(s, prefix) ==
    /\ Len(prefix) <= Len(s)
    /\ SubSeq(s, 1, Len(prefix)) = prefix

\* sub in s.
Contains(sub, s) ==
    \E i \in 1..(Len(s) - Len(sub) + 1) : SubSeq(s, i, i + Len(sub) - 1) = sub

\* s.split(sep) for a one-character separator: the pieces between the
\* separators, empty pieces kept.
RECURSIVE SplitAcc(_, _, _)
SplitAcc(s, sep, cur) ==
    IF Len(s) = 0 THEN <<cur>>
    ELSE IF Head(s) = sep
         THEN <<cur>> \o SplitAcc(Tail(s), sep, "")
         ELSE SplitAcc(Tail(s), sep, cur \o Head(s))

Split(s, sep) == SplitAcc(s, sep, "")

RECURSIVE DigitsVal(_, _)
DigitsVal(s, acc) ==
    IF Len(s) = 0 THEN acc
    ELSE DigitsVal(Tail(s), acc * 10 + DigitVal(Head(s)))

RECURSIVE AllDigits(_)
AllDigits(s) ==
    IF Len(s) = 0 THEN TRUE
    ELSE IsDigit(Head(s)) /\ AllDigits(Tail(s))

\* int(s): surrounding whitespace is ignored, one sign is accepted, the rest
\* must be a non-empty run of decimal digits; anything else is a ValueError.
PyInt(s) ==
    LET t == Strip(s)
        signed == Len(t) > 0 /\ Head(t) \in {"+", "-"}
        body == IF signed THEN Tail(t) ELSE t
        neg == signed /\ Head(t) = "-"
    IN  IF Len(body) > 0 /\ AllDigits(body)
        THEN [err |-> FALSE,
              val |-> IF neg THEN 0 - DigitsVal(body, 0) ELSE DigitsVal(body, 0)]
        ELSE [err |-> TRUE, val |-> 0]

\* sorted(set(xs)) of a list of ints.
RECURSIVE SortedSet(_)
SortedSet(S) ==
    IF S = {} THEN <<>>
    ELSE LET m == CHOOSE x \in S : \A y \in S : x <= y
         IN  <<m>> \o SortedSet(S \ {m})

Range(seq) == {seq[i] : i \in 1..Len(seq)}

\* seq lists the elements of S in strictly ascending order.
IsSortedListOf(seq, S) ==
    /\ Range(seq) = S
    /\ \A i \in 1..(Len(seq) - 1) : seq[i] < seq[i + 1]

\* list(range(a, b + 1)).
RangeList(a, b) == [i \in 1..(IF b >= a THEN b - a + 1 ELSE 0) |-> a + i - 1]

(***************************************************************************)
(* PageRangeCodec: utils.PageRangeParser and                               *)
(* extractors.regrouper_pages_consecutives.                                *)
(***************************************************************************)
\* f"{debut}-{fin}"
FormatPlage(debut, fin) == IntToStr(debut) \o "-" \o IntToStr(fin)

\* The for loop of regrouper_pages_consecutives from index i on, with the
\* current run debut..fin and the tokens emitted so far.
RECURSIVE RegrouperLoop(_, _, _, _, _)
RegrouperLoop(sorted_pages, i, debut, fin, acc) ==
    IF i > Len(sorted_pages)
    THEN IF debut = fin
         THEN Append(acc, FormatPlage(debut, debut))
         ELSE Append(acc, FormatPlage(debut, fin))
    ELSE IF sorted_pages[i] = fin + 1
         THEN RegrouperLoop(sorted_pages, i + 1, debut, sorted_pages[i], acc)
         ELSE RegrouperLoop(sorted_pages, i + 1, sorted_pages[i], sorted_pages[i],
                            IF debut = fin
                            THEN Append(acc, FormatPlage(debut, debut))
                            ELSE Append(acc, FormatPlage(debut, fin)))

\* A grouping that forgets the run still open when the loop ends.
regrouper_drops_last_run(list) ==
    IF Len(list) = 0 THEN <<>>
    ELSE LET sorted_pages == SortedSet(Range(list))
             full == RegrouperLoop(sorted_pages, 2, sorted_pages[1],
                                   sorted_pages[1], <<>>)
         IN  SubSeq(full, 1, Len(full) - 1)

regrouper_pages_consecutives(list) ==
    IF Len(list) = 0 THEN <<>>
    ELSE LET sorted_pages == SortedSet(Range(list))
         IN  RegrouperLoop(sorted_pages, 2, sorted_pages[1], sorted_pages[1], <<>>)

\* A parse whose range stops one page short (range(start, end)).
parse_range_excludes_end(token) ==
    IF Contains("-", token)
    THEN LET parts == Split(token, "-")
         IN  IF Len(parts) # 2 THEN [err |-> TRUE, pages |-> <<>>]
             ELSE LET a == PyInt(parts[1])
                      b == PyInt(parts[2])
                  IN  IF a.err \/ b.err THEN [err |-> TRUE, pages |-> <<>>]
                      ELSE [err |-> FALSE, pages |-> RangeList(a.val, b.val - 1)]
    ELSE LET n == PyInt(token)
         IN  IF n.err THEN [err |-> TRUE, pages |-> <<>>]
             ELSE [err |-> FALSE, pages |-> <<n.val>>]

\* PageRangeParser.parse_range: err is the ValueError of the tuple unpacking
\* or of int(); pages is the list returned otherwise.
parse_range(token) ==
    IF Contains("-", token)
    THEN LET parts == Split(token, "-")
         IN  IF Len(parts) # 2 THEN [err |-> TRUE, pages |-> <<>>]
             ELSE LET a == PyInt(parts[1])
                      b == PyInt(parts[2])
                  IN  IF a.err \/ b.err THEN [err |-> TRUE, pages |-> <<>>]
                      ELSE [err |-> FALSE, pages |-> RangeList(a.val, b.val)]
    ELSE LET n == PyInt(token)
         IN  IF n.err THEN [err |-> TRUE, pages |-> <<>>]
             ELSE [err |-> FALSE, pages |-> <<n.val>>]

\* The package variant of parse_range (src/src/utils.py): the ValueError is
\* caught and an empty list is returned.
parse_range_pkg(token) ==
    LET r == parse_range(token)
    IN  IF r.err THEN [err |-> FALSE, pages |-> <<>>] ELSE r

\* The accumulation loop of parse_multiple_ranges; the first ValueError
\* leaves the function.
RECURSIVE ExtendAll(_, _, _)
ExtendAll(tokens, i, acc) ==
    IF i > Len(tokens) THEN [err |-> FALSE, pages |-> acc]
    ELSE LET r == parse_range(tokens[i])
         IN  IF r.err THEN [err |-> TRUE, pages |-> <<>>]
             ELSE ExtendAll(tokens, i + 1, acc \o r.pages)

parse_multiple_ranges(tokens) ==
    LET r == ExtendAll(tokens, 1, <<>>)
    IN  IF r.err THEN r
        ELSE [err |-> FALSE, pages |-> SortedSet(Range(r.pages))]

\* The lists the grouping is given: every ascending list of distinct pages,
\* and every short list in any order, duplicates included.
PageLists ==
    {SortedSet(S) : S \in SUBSET (1..MaxPage)}
        \cup UNION {[1..n -> 1..MaxPage] : n \in 0..MaxListLen}

InvertedTokens == {"5-3", "12-10", "2-1"}

NonNumericTokens == {"abc", "", "x-2", "3-", "-", "1-2-3", "1 2", "a-b"}

WellFormedTokens == {"7", "12-15", "3-3", " 4 ", "+5"}

RangeTokens == InvertedTokens \cup NonNumericTokens \cup WellFormedTokens

CodecInit ==
    /\ \/ pages_list \in PageLists /\ page_range = "7"
       \/ pages_list = <<>> /\ page_range \in RangeTokens
    /\ plages = <<>>
    /\ all_pages = [err |-> FALSE, pages |-> <<>>]
    /\ regrouped = <<>>
    /\ range_result = [err |-> FALSE, pages |-> <<>>]
    /\ codec_pc = "start"

GroupConsecutive ==
    /\ codec_pc = "start"
    /\ plages' = regrouper_pages_consecutives(pages_list)
    /\ codec_pc' = "grouped"
    /\ UNCHANGED <<pages_list, all_pages, regrouped, page_range, range_result>>
    /\ UNCHANGED codecOthers

ParseMultipleRanges ==
    /\ codec_pc = "grouped"
    /\ all_pages' = parse_multiple_ranges(plages)
    /\ codec_pc' = "parsed"
    /\ UNCHANGED <<pages_list, plages, regrouped, page_range, range_result>>
    /\ UNCHANGED codecOthers

Regroup ==
    /\ codec_pc = "parsed"
    /\ ~all_pages.err
    /\ regrouped' = regrouper_pages_consecutives(all_pages.pages)
    /\ codec_pc' = "regrouped"
    /\ UNCHANGED <<pages_list, plages, all_pages, page_range, range_result>>
    /\ UNCHANGED codecOthers

ParseRange ==
    /\ codec_pc = "start"
    /\ range_result' = parse_range(page_range)
    /\ codec_pc' = "token_parsed"
    /\ UNCHANGED <<pages_list, plages, all_pages, regrouped, page_range>>
    /\ UNCHANGED codecOthers

CodecNext == GroupConsecutive \/ ParseMultipleRanges \/ Regroup \/ ParseRange

(***************************************************************************)
(* DataFrames.                                                             *)
(***************************************************************************)
DataFrame(columns, rows) == [none |-> FALSE, columns |-> columns, rows |-> rows]

\* The absent table (Python None).
NoneDF == [none |-> TRUE, columns |-> <<>>, rows |-> <<>>]

\* pd.DataFrame(): no column, no row.
EmptyDF == DataFrame(<<>>, <<>>)

\* df.empty: one of the two axes has length 0.
IsEmptyDF(df) == Len(df.columns) = 0 \/ Len(df.rows) = 0

\* str(x) of a header or of a cell.
PyStr(x) == IF x = NONE THEN "None" ELSE x

\* The positions of the columns labelled name (a label may be repeated).
ColumnsNamed(columns, name) == {j \in 1..Len(columns) : columns[j] = name}

(***************************************************************************)
(* CategoryAssembler: DictionaryCSVProcessor.process_all_categories, for   *)
(* one category of one document, from the table process_category returned. *)
(***************************************************************************)
\* config.DICO_BORDEREAU
DICO_BORDEREAU ==
    [k \in {"Bordereau A1 n", "Bordereau I2 n", "Bordereau A3 n", "Bordereau A4 n",
            "Bordereau A5 n", "Bordereau A50 n", "Bordereau A6 n",
            "Bordereau A6 bis n", "Bordereau A7 n", "Bordereau A7 bis n",
            "Bordereau A7 ter n", "Bordereau I8 n", "Bordereau A9 n"} |->
        CASE k = "Bordereau A1 n" -> "Admissions au stage statutaire"
          [] k = "Bordereau I2 n" -> "Suivis au stage statutaire"
          [] k = "Bordereau A3 n" -> "Titularisations"
          [] k = "Bordereau A4 n" -> "Reclassements"
          [] k = "Bordereau A5 n" -> "Publications - examen des candidatures"
          [] k = "Bordereau A50 n" -> "Nominations suite aux publications de postes"
          [] k = "Bordereau A6 n" -> "Mutations individuelles"
          [] k = "Bordereau A6 bis n" -> "Mutations collectives"
          [] k = "Bordereau A7 n" -> "Avancement"
          [] k = "Bordereau A7 bis n" -> "Avancement AIC"
          [] k = "Bordereau A7 ter n" -> "Reconnaissances individuelles au choix"
          [] k = "Bordereau I8 n" -> "Services civils"
          [] k = "Bordereau A9 n" -> "Requêtes individuelles"]

\* config.MOTS_CLES
MOTS_CLES ==
    <<"Bordereau A1 n", "Bordereau I2 n", "Bordereau A3 n", "Bordereau A4 n",
      "Bordereau A5 n", "Bordereau A50 n", "Bordereau A6 n", "Bordereau A6 bis n",
      "Bordereau A7 n", "Bordereau A7 bis n", "Bordereau A7 ter n",
      "Bordereau I8 n", "Bordereau A9 n">>

\* The "unnamed" mask of one header.
IsUnnamed(c) ==
    \/ c = NONE
    \/ Strip(c) = ""
    \/ StartsWith(Lower(c), "unnamed:")

\* The renaming loop of _process_dataframe_columns from column i on (1-based).
\* An unnamed leftmost column assigns new_cols[-1] of an empty list: IndexError.
RECURSIVE RenameLoop(_, _, _, _)
RenameLoop(columns, first_row, i, new_cols) ==
    IF i > Len(columns) THEN [raised |-> FALSE, columns |-> new_cols]
    ELSE IF IsUnnamed(columns[i])
         THEN IF i = 1 THEN [raised |-> TRUE, columns |-> <<>>]
              ELSE LET left_name == new_cols[i - 1]
                       first_val == first_row[i]
                       left_first_val == first_row[i - 1]
                       renamed == [new_cols EXCEPT
                                     ![i - 1] = left_name \o "_" \o Strip(PyStr(left_first_val))]
                   IN  RenameLoop(columns, first_row, i + 1,
                                  Append(renamed,
                                         left_name \o "_" \o Strip(PyStr(first_val))))
         ELSE RenameLoop(columns, first_row, i + 1, Append(new_cols, PyStr(columns[i])))

\* re.sub(r'\s+', ' ', s) after the newlines, carriage returns and tabs were
\* replaced by spaces: every run of whitespace becomes one space.
RECURSIVE CollapseSpaces(_, _)
CollapseSpaces(s, in_space) ==
    IF Len(s) = 0 THEN s
    ELSE IF IsSpace(Head(s))
         THEN (IF in_space THEN "" ELSE " ") \o CollapseSpaces(Tail(s), TRUE)
         ELSE Head(s) \o CollapseSpaces(Tail(s), FALSE)

CleanColumnName(col) == Strip(CollapseSpaces(PyStr(col), FALSE))

_clean_column_names(df) ==
    [df EXCEPT !.columns = [j \in 1..Len(df.columns) |-> CleanColumnName(df.columns[j])]]

\* A header repair that renames the columns and keeps every row.
process_columns_keeps_first_row(df) ==
    IF \E j \in 1..Len(df.columns) : IsUnnamed(df.columns[j])
    THEN LET first_row == IF Len(df.rows) > 0 THEN df.rows[1]
                          ELSE [j \in 1..Len(df.columns) |-> ""]
             r == RenameLoop(df.columns, first_row, 1, <<>>)
         IN  IF r.raised THEN [raised |-> TRUE, df |-> NoneDF]
             ELSE [raised |-> FALSE,
                   df |-> _clean_column_names(DataFrame(r.columns, df.rows))]
    ELSE [raised |-> FALSE, df |-> _clean_column_names(df)]

\* DictionaryCSVProcessor._process_dataframe_columns.  compte > 0 whenever
\* the mask holds a True, so the first row is dropped on that branch.
_process_dataframe_columns(df) ==
    IF \E j \in 1..Len(df.columns) : IsUnnamed(df.columns[j])
    THEN LET first_row == IF Len(df.rows) > 0 THEN df.rows[1]
                          ELSE [j \in 1..Len(df.columns) |-> ""]
             r == RenameLoop(df.columns, first_row, 1, <<>>)
         IN  IF r.raised THEN [raised |-> TRUE, df |-> NoneDF]
             ELSE [raised |-> FALSE,
                   df |-> _clean_column_names(DataFrame(r.columns, Tail(df.rows)))]
    ELSE [raised |-> FALSE, df |-> _clean_column_names(df)]

\* The renaming loop of the single-file variant (app_one_file.py): only the
\* first unnamed column of a run renames the left neighbour, and every column
\* of the run is named after that neighbour's name.
RECURSIVE RenameLoopOneFile(_, _, _, _, _, _)
RenameLoopOneFile(columns, first_row, i, new_cols, consec, left_name) ==
    IF i > Len(columns) THEN [raised |-> FALSE, columns |-> new_cols]
    ELSE IF IsUnnamed(columns[i])
         THEN IF consec = 0
              THEN IF i = 1 THEN [raised |-> TRUE, columns |-> <<>>]
                   ELSE LET left == new_cols[i - 1]
                            renamed == [new_cols EXCEPT
                                          ![i - 1] = left \o "_"
                                                       \o Strip(PyStr(first_row[i - 1]))]
                        IN  RenameLoopOneFile(columns, first_row, i + 1,
                                Append(renamed, left \o "_" \o Strip(PyStr(first_row[i]))),
                                1, left)
              ELSE RenameLoopOneFile(columns, first_row, i + 1,
                       Append(new_cols, left_name \o "_" \o Strip(PyStr(first_row[i]))),
                       consec + 1, left_name)
         ELSE RenameLoopOneFile(columns, first_row, i + 1,
                                Append(new_cols, PyStr(columns[i])), 0, left_name)

\* os.path.splitext(pdf_filename)[0]: the name up to its last dot, a leading
\* dot not counting as the start of an extension.
RECURSIVE LastDot(_, _)
LastDot(s, i) ==
    IF i < 1 THEN 0
    ELSE IF SubSeq(s, i, i) = "." THEN i ELSE LastDot(s, i - 1)

RECURSIVE LeadingDots(_)
LeadingDots(s) ==
    IF Len(s) > 0 /\ Head(s) = "." THEN 1 + LeadingDots(Tail(s)) ELSE 0

SplitExtBase(name) ==
    LET d == LastDot(name, Len(name))
    IN  IF d > LeadingDots(name) THEN SubSeq(name, 1, d - 1) ELSE name

\* re.search of each pattern of name_patterns in a lowercased column name.
MatchE(s, i) == SubSeq(s, i, i) \in {"e", "é"}

HasPrenomAt(s, i) ==
    /\ i + 5 <= Len(s)
    /\ SubSeq(s, i, i + 1) = "pr"
    /\ MatchE(s, i + 2)
    /\ SubSeq(s, i + 3, i + 5) = "nom"

HasNomAt(s, i) == i + 2 <= Len(s) /\ SubSeq(s, i, i + 2) = "nom"

NoNewline(s, i, j) == \A k \in i..j : SubSeq(s, k, k) # "\n"

PatNomPrenom(s) ==
    \E i, j \in 1..Len(s) :
        HasNomAt(s, i) /\ j >= i + 3 /\ HasPrenomAt(s, j) /\ NoNewline(s, i + 3, j - 1)

PatPrenomNom(s) ==
    \E i, j \in 1..Len(s) :
        HasPrenomAt(s, i) /\ j >= i + 6 /\ HasNomAt(s, j) /\ NoNewline(s, i + 6, j - 1)

PatNomOnly(s) == s = "nom" \/ s = "nom\n"

PatNom(s) == \E i \in 1..Len(s) : HasNomAt(s, i)

PatPrenom(s) == \E i \in 1..Len(s) : HasPrenomAt(s, i)

PatIdentite(s) ==
    \E i \in 1..Len(s) :
        /\ i + 7 <= Len(s)
        /\ SubSeq(s, i, i + 6) = "identit"
        /\ MatchE(s, i + 7)

PatPersonne(s) == Contains("personne", s)

MatchesNamePattern(col) ==
    LET col_lower == Lower(PyStr(col))
    IN  \/ PatNomPrenom(col_lower)
        \/ PatPrenomNom(col_lower)
        \/ PatNomOnly(col_lower)
        \/ PatNom(col_lower)
        \/ PatPrenom(col_lower)
        \/ PatIdentite(col_lower)
        \/ PatPersonne(col_lower)

\* df.rename(columns={old: new}): every column labelled old is relabelled.
RenameColumn(df, old, new) ==
    [df EXCEPT !.columns = [j \in 1..Len(df.columns) |->
                               IF df.columns[j] = old THEN new ELSE df.columns[j]]]

_standardize_name_column(df) ==
    IF \E j \in 1..Len(df.columns) : MatchesNamePattern(df.columns[j])
    THEN LET first == CHOOSE j \in 1..Len(df.columns) :
                         /\ MatchesNamePattern(df.columns[j])
                         /\ \A k \in 1..(j - 1) : ~MatchesNamePattern(df.columns[k])
         IN  RenameColumn(df, df.columns[first], "Nom & Prénom")
    ELSE IF Len(df.columns) > 2
         THEN RenameColumn(df, df.columns[3], "Nom & Prénom")
         ELSE df

\* df.insert(loc, column, value): the new column holds value on every row;
\* a label the table already holds is a ValueError.
InsertColumn(df, loc, column, value) ==
    DataFrame(SubSeq(df.columns, 1, loc) \o <<column>>
                 \o SubSeq(df.columns, loc + 1, Len(df.columns)),
              [r \in 1..Len(df.rows) |->
                  SubSeq(df.rows[r], 1, loc) \o <<value>>
                     \o SubSeq(df.rows[r], loc + 1, Len(df.rows[r]))])

_add_metadata_columns(df, filename, category) ==
    IF ColumnsNamed(df.columns, "Document") # {}
    THEN [raised |-> TRUE, df |-> NoneDF]
    ELSE LET with_doc == InsertColumn(df, 0, "Document", SplitExtBase(filename))
         IN  IF ColumnsNamed(with_doc.columns, "Catégorie") # {}
             THEN [raised |-> TRUE, df |-> NoneDF]
             ELSE [raised |-> FALSE,
                   df |-> _standardize_name_column(
                              InsertColumn(with_doc, 1, "Catégorie",
                                           DICO_BORDEREAU[category]))]

\* df.iloc[:, 5].str.lower().str.strip() == 'aucune candidature', row by row
\* (a cell that is not a string compares unequal).
IsAucuneCandidature(cell) ==
    cell # NONE /\ Strip(Lower(cell)) = "aucune candidature"

\* df.loc[mask, label] = value: on the rows of the mask, every column
\* labelled label takes value.
SetWhere(df, mask, label, value) ==
    [df EXCEPT !.rows = [r \in 1..Len(df.rows) |->
                            IF r \in mask
                            THEN [j \in 1..Len(df.columns) |->
                                     IF df.columns[j] = label THEN value
                                     ELSE df.rows[r][j]]
                            ELSE df.rows[r]]]

\* The "Bordereau A5 n" block of _clean_and_filter_data, on the table it is
\* handed.
A5Rewrite(df, category) ==
    IF category = "Bordereau A5 n" /\ Len(df.columns) > 5
    THEN LET mask == {r \in 1..Len(df.rows) : IsAucuneCandidature(df.rows[r][6])}
         IN  SetWhere(SetWhere(df, mask, df.columns[1], "aucune candidature"),
                      mask, df.columns[6], "")
    ELSE df

\* df[mask] for a sequence of rows.
RECURSIVE FilterRows(_, _)
FilterRows(rows, keep) ==
    IF Len(rows) = 0 THEN <<>>
    ELSE (IF Head(rows) \in keep THEN <<Head(rows)>> ELSE <<>>)
            \o FilterRows(Tail(rows), keep)

\* The pruning of _clean_and_filter_data: the rows whose column 0 is not
\* blank are kept.
PruneBlankFirst(df) ==
    [df EXCEPT !.rows = FilterRows(df.rows,
                           {row \in Range(df.rows) : Strip(PyStr(row[1])) # ""})]

_clean_and_filter_data(df, category) == PruneBlankFirst(A5Rewrite(df, category))

\* Headers of an extracted table: a named one, a blank one, a placeholder,
\* and one whose text spans two lines.
HeaderNames == {"Nom", "", "Unnamed: 2", "Grade\nactuel"}

\* First data rows, cut to the width of the table.
FirstRows == {<<"Dupont", "A", "B", "C">>, <<"Martin", "", "5", "x">>}

SecondRow == <<"Durand", "1", "2", "3">>

\* Tables with up to MaxHeaderCols columns and any mix of headers.
HeaderTables ==
    {DataFrame(h, <<SubSeq(f, 1, Len(h)), SubSeq(SecondRow \o <<"4">>, 1, Len(h))>>) :
        h \in UNION {[1..n -> HeaderNames] : n \in 1..MaxHeaderCols}, f \in FirstRows}

CellColumns == <<"Nom", "Grade", "NR", "Emploi", "Lieu", "Candidature", "Avis", "Rang">>

\* Rows of n string cells: the 1st is a name or blank, the 4th and the 6th
\* hold or not the "no candidacy" marker.
CellRows(n) ==
    {[j \in 1..n |-> CASE j = 1 -> a
                       [] j = 4 -> b
                       [] j = 6 -> c
                       [] OTHER -> "v"] :
        a \in {"Dupont", ""},
        b \in {"Aucune Candidature", "B2"},
        c \in {"Aucune Candidature", "oui"}}

\* Tables with 4 to MaxCellCols named columns and 1 to MaxCellRows rows.
CellTables ==
    UNION {{DataFrame(SubSeq(CellColumns, 1, n), rows) :
               rows \in UNION {[1..m -> CellRows(n)] : m \in 1..MaxCellRows}} :
           n \in 4..MaxCellCols}

AsmInit ==
    /\ pdf_filename = "rapport.2024.pdf"
    /\ category_name \in {"Bordereau A5 n", "Bordereau A1 n"}
    /\ df_category \in HeaderTables \cup CellTables
    /\ df_columns = NoneDF
    /\ df_metadata = NoneDF
    /\ df_prepared = NoneDF
    /\ asm_raised = FALSE
    /\ asm_pc = "category"

\* df = self._process_dataframe_columns(df, category_name)
ProcessDataframeColumns ==
    /\ asm_pc = "category"
    /\ LET r == _process_dataframe_columns(df_category)
       IN  /\ df_columns' = r.df
           /\ asm_raised' = r.raised
           /\ asm_pc' = IF r.raised THEN "raised" ELSE "columns"
    /\ UNCHANGED <<pdf_filename, category_name, df_category, df_metadata, df_prepared>>
    /\ UNCHANGED asmOthers

\* df = self._add_metadata_columns(df, pdf_filename, category_name)
AddMetadataColumns ==
    /\ asm_pc = "columns"
    /\ LET r == _add_metadata_columns(df_columns, pdf_filename, category_name)
       IN  /\ df_metadata' = r.df
           /\ asm_raised' = r.raised
           /\ asm_pc' = IF r.raised THEN "raised" ELSE "metadata"
    /\ UNCHANGED <<pdf_filename, category_name, df_category, df_columns, df_prepared>>
    /\ UNCHANGED asmOthers

\* df = self._clean_and_filter_data(df, category_name); all_dataframes.append(df)
CleanAndFilterData ==
    /\ asm_pc = "metadata"
    /\ df_prepared' = _clean_and_filter_data(df_metadata, category_name)
    /\ asm_pc' = "prepared"
    /\ UNCHANGED <<pdf_filename, category_name, df_category, df_columns, df_metadata,
                   asm_raised>>
    /\ UNCHANGED asmOthers

AsmNext == ProcessDataframeColumns \/ AddMetadataColumns \/ CleanAndFilterData

(***************************************************************************)
(* DatasetConsolidator: _concatenate_all_dataframes, _create_final_csv and *)
(* create_global_csv, on the list of tables they are handed.               *)
(***************************************************************************)
\* cols.count(col)
Count(cols, col) == Cardinality({j \in 1..Len(cols) : cols[j] = col})

\* clean_df.columns.duplicated().any()
HasDuplicates(cols) == \E i, j \in 1..Len(cols) : i < j /\ cols[i] = cols[j]

\* The duplicate-column pass from position j on (1-based; the suffix is the
\* 0-based position).  The count is taken on the list being rewritten.
RECURSIVE DedupLoop(_, _)
DedupLoop(cols, j) ==
    IF j > Len(cols) THEN cols
    ELSE IF Count(cols, cols[j]) > 1
         THEN DedupLoop([cols EXCEPT ![j] = PyStr(cols[j]) \o "_" \o NatToStr(j - 1)], j + 1)
         ELSE DedupLoop(cols, j + 1)

\* The union of the columns of the frames, in order of first appearance.
RECURSIVE AppendNew(_, _)
AppendNew(acc, cols) ==
    IF Len(cols) = 0 THEN acc
    ELSE AppendNew(IF Head(cols) \in Range(acc) THEN acc ELSE Append(acc, Head(cols)),
                   Tail(cols))

RECURSIVE UnionColumns(_, _)
UnionColumns(frames, acc) ==
    IF Len(frames) = 0 THEN acc
    ELSE UnionColumns(Tail(frames), AppendNew(acc, Head(frames).columns))

\* The rows of df on the given (distinct) columns; a column df lacks is NaN.
Reindex(df, columns) ==
    [r \in 1..Len(df.rows) |->
        [j \in 1..Len(columns) |->
            IF ColumnsNamed(df.columns, columns[j]) = {} THEN NONE
            ELSE df.rows[r][CHOOSE k \in ColumnsNamed(df.columns, columns[j]) : TRUE]]]

RECURSIVE ConcatRows(_, _)
ConcatRows(frames, columns) ==
    IF Len(frames) = 0 THEN <<>>
    ELSE Reindex(Head(frames), columns) \o ConcatRows(Tail(frames), columns)

RECURSIVE StackRows(_)
StackRows(frames) ==
    IF Len(frames) = 0 THEN <<>> ELSE Head(frames).rows \o StackRows(Tail(frames))

\* pd.concat(frames, ignore_index=True, sort=False) of a non-empty list.
\* Frames with the same columns are stacked as they are; otherwise the rows
\* are reindexed on the union of the columns, which raises when a frame
\* repeats a label.
PdConcat(frames) ==
    IF \A i \in 1..Len(frames) : frames[i].columns = frames[1].columns
    THEN [raised |-> FALSE, df |-> DataFrame(frames[1].columns, StackRows(frames))]
    ELSE IF \E i \in 1..Len(frames) : HasDuplicates(frames[i].columns)
         THEN [raised |-> TRUE, df |-> NoneDF]
         ELSE LET columns == UnionColumns(frames, <<>>)
              IN  [raised |-> FALSE, df |-> DataFrame(columns, ConcatRows(frames, columns))]

\* The positions df[labels] selects: for each label in turn, every column
\* that carries it.
RECURSIVE SelectPositions(_, _)
SelectPositions(columns, labels) ==
    IF Len(labels) = 0 THEN <<>>
    ELSE SortedSet(ColumnsNamed(columns, Head(labels)))
            \o SelectPositions(columns, Tail(labels))

\* [col for col in columns if col not in front]
RECURSIVE RemainingCols(_, _)
RemainingCols(columns, front) ==
    IF Len(columns) = 0 THEN <<>>
    ELSE (IF Head(columns) \in Range(front) THEN <<>> ELSE <<Head(columns)>>)
            \o RemainingCols(Tail(columns), front)

\* merged_df = merged_df[cols_to_front + remaining_cols]
ReorderColumns(df) ==
    LET cols_to_front ==
            (IF ColumnsNamed(df.columns, "Document") # {} THEN <<"Document">> ELSE <<>>)
            \o (IF ColumnsNamed(df.columns, "Catégorie") # {} THEN <<"Catégorie">> ELSE <<>>)
            \o (IF ColumnsNamed(df.columns, "Nom & Prénom") # {}
                THEN <<"Nom & Prénom">> ELSE <<>>)
        final_columns_order == cols_to_front \o RemainingCols(df.columns, cols_to_front)
        positions == SelectPositions(df.columns, final_columns_order)
    IN  DataFrame([j \in 1..Len(positions) |-> df.columns[positions[j]]],
                  [r \in 1..Len(df.rows) |->
                      [j \in 1..Len(positions) |-> df.rows[r][positions[j]]]])

\* merged_df.fillna('')
FillNa(df) ==
    [df EXCEPT !.rows = [r \in 1..Len(df.rows) |->
                            [j \in 1..Len(df.rows[r]) |->
                                IF df.rows[r][j] = NONE THEN "" ELSE df.rows[r][j]]]]

\* max(dataframes_list, key=lambda x: len(x) if x is not None else 0): the
\* first table with the most rows.
Largest(frames) ==
    frames[CHOOSE i \in 1..Len(frames) :
              /\ \A k \in 1..Len(frames) : Len(frames[k].rows) <= Len(frames[i].rows)
              /\ \A k \in 1..(i - 1) : Len(frames[k].rows) < Len(frames[i].rows)]

IsUsable(df) == ~df.none /\ ~IsEmptyDF(df)

IsNotNone(df) == ~df.none

\* clean_df of the loop of _concatenate_all_dataframes.
DedupColumns(df) ==
    IF HasDuplicates(df.columns) THEN [df EXCEPT !.columns = DedupLoop(df.columns, 1)]
    ELSE df

MapDedup(frames) == [i \in 1..Len(frames) |-> DedupColumns(frames[i])]

\* DictionaryCSVProcessor._concatenate_all_dataframes
_concatenate_all_dataframes(frames) ==
    IF Len(frames) = 0 THEN EmptyDF
    ELSE IF Len(frames) = 1 THEN frames[1]
    ELSE LET clean_dataframes == MapDedup(SelectSeq(frames, IsUsable))
         IN  IF Len(clean_dataframes) = 0 THEN EmptyDF
             ELSE LET c == PdConcat(clean_dataframes)
                  IN  IF c.raised
                      THEN (IF Largest(frames).none THEN EmptyDF ELSE Largest(frames))
                      ELSE FillNa(ReorderColumns(c.df))

\* The merged_df of the tuple DictionaryCSVProcessor._create_final_csv
\* returns: None next to a None path when there is nothing to write.
_create_final_csv(frames) ==
    IF Len(frames) > 0
    THEN LET m == _concatenate_all_dataframes(frames)
         IN  IF IsUsable(m) THEN m ELSE NoneDF
    ELSE NoneDF

\* create_global_csv, on the merged_dataframe of every result: the dataset
\* its CSV bytes serialise, or None.
create_global_csv(merged_dataframes) ==
    LET all_global_dataframes == SelectSeq(merged_dataframes, IsNotNone)
        clean_global_dataframes == SelectSeq(all_global_dataframes, IsUsable)
    IN  IF Len(all_global_dataframes) = 0 \/ Len(clean_global_dataframes) = 0
        THEN NoneDF
        ELSE LET c == PdConcat(clean_global_dataframes)
             IN  IF c.raised THEN NoneDF ELSE FillNa(ReorderColumns(c.df))

\* The headers of the prepared tables of five categories: two plain ones,
\* one whose name column is not the first content column, one that repeats
\* a label, one that repeats a label next to a column already named like
\* the suffixed form.
TableKinds == {"grades", "emplois", "grade_then_name", "dates", "dates_suffixed"}

TableColumns(kind) ==
    CASE kind = "grades" -> <<"Document", "Catégorie", "Nom & Prénom", "Grade">>
      [] kind = "emplois" -> <<"Document", "Catégorie", "Nom & Prénom", "Emploi", "Date">>
      [] kind = "grade_then_name" -> <<"Document", "Catégorie", "Grade", "Nom & Prénom">>
      [] kind = "dates" -> <<"Document", "Catégorie", "Nom & Prénom", "Date", "Date">>
      [] kind = "dates_suffixed" ->
            <<"Document", "Catégorie", "Nom & Prénom", "Date_4", "Date", "Date">>

\* n rows; the tables share their names, and the 2nd row has a null cell.
TableRows(kind, n) ==
    [i \in 1..n |->
        [j \in 1..Len(TableColumns(kind)) |->
            CASE TableColumns(kind)[j] = "Document" -> "rapport"
              [] TableColumns(kind)[j] = "Catégorie" -> kind
              [] TableColumns(kind)[j] = "Nom & Prénom" ->
                    (IF i % 2 = 1 THEN "Dupont" ELSE "Martin")
              [] OTHER -> (IF i = 2 THEN NONE ELSE "v")]]

Tables ==
    {DataFrame(TableColumns(kind), TableRows(kind, n)) :
        kind \in TableKinds, n \in 0..MaxTableRows} \cup {NoneDF}

ConcInit ==
    /\ dataframes_list \in UNION {[1..n -> Tables] : n \in 0..MaxTables}
    /\ merged_df = NoneDF
    /\ final_csv = NoneDF
    /\ global_csv = NoneDF
    /\ conc_pc = "list"

\* merged_df = self._concatenate_all_dataframes(all_dataframes)
ConcatenateAllDataframes ==
    /\ conc_pc = "list"
    /\ merged_df' = _concatenate_all_dataframes(dataframes_list)
    /\ conc_pc' = "merged"
    /\ UNCHANGED <<dataframes_list, final_csv, global_csv>>
    /\ UNCHANGED concOthers

\* return self._create_final_csv(all_dataframes, ...)
CreateFinalCsv ==
    /\ conc_pc = "merged"
    /\ final_csv' = _create_final_csv(dataframes_list)
    /\ conc_pc' = "final"
    /\ UNCHANGED <<dataframes_list, merged_df, global_csv>>
    /\ UNCHANGED concOthers

\* global_csv_data = create_global_csv(all_results)
CreateGlobalCsv ==
    /\ conc_pc = "final"
    /\ global_csv' = create_global_csv(dataframes_list)
    /\ conc_pc' = "global"
    /\ UNCHANGED <<dataframes_list, merged_df, final_csv>>
    /\ UNCHANGED concOthers

ConcNext == ConcatenateAllDataframes \/ CreateFinalCsv \/ CreateGlobalCsv

(***************************************************************************)
(* CoverageReporter: utils.calculate_coverage_info.                        *)
(***************************************************************************)
\* The record of the except branch.
ZeroCoverage ==
    [total_pages |-> 0, pages_traitees |-> <<>>, pages_non_traitees |-> <<>>,
     nb_pages_traitees |-> 0, nb_pages_non_traitees |-> 0,
     pourcentage_couverture |-> 0]

\* Every range_str the two loops visit.
AllTokens(dictionnaire) == UNION {Range(dictionnaire[c]) : c \in DOMAIN dictionnaire}

\* A percentage that drops the digits after the first decimal.
RoundTenthsTruncates(num, den) == (1000 * num) \div den

\* round(num / den * 100, 1), in tenths of a percent: the nearest tenth, a
\* tie going to the even one.
RoundTenths(num, den) ==
    LET q == (1000 * num) \div den
        r == (1000 * num) % den
    IN  IF 2 * r > den THEN q + 1
        ELSE IF 2 * r < den THEN q
        ELSE IF q % 2 = 0 THEN q ELSE q + 1

\* calculate_coverage_info(pdf_path, dictionnaire_plages); pdf is what
\* PyPDF2 finds at pdf_path.  pourcentage_couverture is in tenths.
calculate_coverage_info(pdf, dictionnaire) ==
    IF ~pdf.readable \/ \E t \in AllTokens(dictionnaire) : parse_range(t).err
    THEN ZeroCoverage
    ELSE LET pages_traitees ==
                 UNION {Range(parse_range(t).pages) : t \in AllTokens(dictionnaire)}
             toutes_pages == 1..pdf.pages
             pages_non_traitees == toutes_pages \ pages_traitees
             pourcentage_couverture ==
                 IF pdf.pages > 0
                 THEN RoundTenths(Cardinality(pages_traitees), pdf.pages)
                 ELSE 0
         IN  [total_pages |-> pdf.pages,
              pages_traitees |-> SortedSet(pages_traitees),
              pages_non_traitees |-> SortedSet(pages_non_traitees),
              nb_pages_traitees |-> Cardinality(pages_traitees),
              nb_pages_non_traitees |-> Cardinality(pages_non_traitees),
              pourcentage_couverture |-> pourcentage_couverture]

\* The page maps the locator hands over: every keyword is a key, two of
\* them with pages (one page common to both, one beyond the short documents).
PageMaps ==
    {[c \in Range(MOTS_CLES) |->
         CASE c = "Bordereau A1 n" -> regrouper_pages_consecutives(SortedSet(S1))
           [] c = "Bordereau A5 n" -> regrouper_pages_consecutives(SortedSet(S2))
           [] OTHER -> <<>>] :
        S1 \in SUBSET (1..MaxCovPage), S2 \in SUBSET {3, MaxTotalPages + 1}}

CovInit ==
    /\ total_pages \in 0..MaxTotalPages
    /\ pdf_unreadable \in BOOLEAN
    /\ dictionnaire_plages \in PageMaps
    /\ coverage_info = ZeroCoverage
    /\ cov_pc = "map"

\* coverage_info = calculate_coverage_info(pdf_path, dictionnaire_plages)
CalculateCoverageInfo ==
    /\ cov_pc = "map"
    /\ coverage_info' =
          calculate_coverage_info([readable |-> ~pdf_unreadable, pages |-> total_pages],
                                  dictionnaire_plages)
    /\ cov_pc' = "done"
    /\ UNCHANGED <<total_pages, pdf_unreadable, dictionnaire_plages>>
    /\ UNCHANGED covOthers

CovNext == CalculateCoverageInfo

(***************************************************************************)
(* TableCleaner: processors.DataCleaner.clean_dataframe.                   *)
(***************************************************************************)
\* The sub-sequence of seq at the positions of keep, in order.
SubSeqAt(seq, keep) ==
    LET positions == SortedSet(keep)
    IN  [j \in 1..Len(positions) |-> seq[positions[j]]]

\* df.dropna(how='all'): the rows whose cells are all null go.
DropNaRows(df) ==
    [df EXCEPT !.rows =
        SubSeqAt(df.rows, {r \in 1..Len(df.rows) :
                              \E j \in 1..Len(df.columns) : df.rows[r][j] # NONE})]

\* df.dropna(axis=1, how='all'): the columns whose cells are all null go.
DropNaColumns(df) ==
    LET keep == {j \in 1..Len(df.columns) :
                    \E r \in 1..Len(df.rows) : df.rows[r][j] # NONE}
    IN  DataFrame(SubSeqAt(df.columns, keep),
                  [r \in 1..Len(df.rows) |-> SubSeqAt(df.rows[r], keep)])

\* df.map(lambda x: x.strip() if isinstance(x, str) else x)
StripCells(df) ==
    [df EXCEPT !.rows = [r \in 1..Len(df.rows) |->
                            [j \in 1..Len(df.columns) |->
                                IF df.rows[r][j] = NONE THEN NONE
                                ELSE Strip(df.rows[r][j])]]]

\* re.sub(pattern, replacement, s) for a pattern that is one literal
\* character.
RECURSIVE ReSub(_, _, _)
ReSub(pattern, replacement, s) ==
    IF Len(s) = 0 THEN s
    ELSE (IF Head(s) = pattern THEN replacement ELSE Head(s))
            \o ReSub(pattern, replacement, Tail(s))

\* df[column] = df[column].astype(str).str.replace(pattern, replacement,
\* regex=True)
ReplaceInColumn(df, column, pattern, replacement) ==
    [df EXCEPT !.rows = [r \in 1..Len(df.rows) |->
                            [j \in 1..Len(df.columns) |->
                                IF df.columns[j] = column
                                THEN ReSub(pattern, replacement, PyStr(df.rows[r][j]))
                                ELSE df.rows[r][j]]]]

\* The two loops over regex_patterns, flattened to the list of its
\* (column, pattern, replacement) entries in dictionary order.
RECURSIVE ApplyRegexRules(_, _)
ApplyRegexRules(df, regex_rules) ==
    IF Len(regex_rules) = 0 THEN df
    ELSE LET rule == Head(regex_rules)
         IN  ApplyRegexRules(
                 IF ColumnsNamed(df.columns, rule.column) # {}
                 THEN ReplaceInColumn(df, rule.column, rule.pattern, rule.replacement)
                 ELSE df,
                 Tail(regex_rules))

\* A cleaning whose strip turns a blank cell into a null one
\* (x.strip() or None), after the null rows and columns were dropped.
clean_blank_becomes_null(cleaning_rules, df) ==
    IF df.none \/ IsEmptyDF(df) THEN df
    ELSE LET a == IF cleaning_rules.remove_empty_rows THEN DropNaRows(df) ELSE df
             b == IF cleaning_rules.remove_empty_columns THEN DropNaColumns(a) ELSE a
             c == IF cleaning_rules.strip_whitespace
                  THEN [b EXCEPT !.rows =
                          [r \in 1..Len(b.rows) |->
                              [j \in 1..Len(b.columns) |->
                                  IF b.rows[r][j] = NONE \/ Strip(b.rows[r][j]) = ""
                                  THEN NONE ELSE Strip(b.rows[r][j])]]]
                  ELSE b
         IN  ApplyRegexRules(c, cleaning_rules.regex_patterns)

\* DataCleaner(cleaning_rules).clean_dataframe(df); a flag the dictionary
\* lacks counts as True.
clean_dataframe(cleaning_rules, df) ==
    IF df.none \/ IsEmptyDF(df) THEN df
    ELSE LET a == IF cleaning_rules.remove_empty_rows THEN DropNaRows(df) ELSE df
             b == IF cleaning_rules.remove_empty_columns THEN DropNaColumns(a) ELSE a
             c == IF cleaning_rules.strip_whitespace THEN StripCells(b) ELSE b
         IN  ApplyRegexRules(c, cleaning_rules.regex_patterns)

\* regex_patterns: none (as config.DEFAULT_CLEANING_RULES), one that
\* doubles a letter, one that replaces it.
RegexPatterns ==
    {<<>>,
     <<[column |-> "c0", pattern |-> "a", replacement |-> "aa"]>>,
     <<[column |-> "c0", pattern |-> "a", replacement |-> "b"]>>}

CleaningRules ==
    [remove_empty_rows : BOOLEAN, remove_empty_columns : BOOLEAN,
     strip_whitespace : BOOLEAN, regex_patterns : RegexPatterns]

CleanCells == {NONE, "", " a "}

\* Tables of two columns and up to MaxCleanRows rows, and no table at all.
CleanTables ==
    {DataFrame(<<"c0", "c1">>, rows) :
        rows \in UNION {[1..n -> [1..2 -> CleanCells]] : n \in 0..MaxCleanRows}}
        \cup {NoneDF}

CleanInit ==
    /\ rules \in CleaningRules
    /\ df_extracted \in CleanTables
    /\ df_clean = NoneDF
    /\ df_clean_again = NoneDF
    /\ clean_pc = "extracted"

\* cleaned_table = self.cleaner.clean_dataframe(table)
CleanDataframe ==
    /\ clean_pc = "extracted"
    /\ df_clean' = clean_dataframe(rules, df_extracted)
    /\ clean_pc' = "clean"
    /\ UNCHANGED <<rules, df_extracted, df_clean_again>>
    /\ UNCHANGED cleanOthers

\* The cleaner run again on its own output.
CleanDataframeAgain ==
    /\ clean_pc = "clean"
    /\ df_clean_again' = clean_dataframe(rules, df_clean)
    /\ clean_pc' = "again"
    /\ UNCHANGED <<rules, df_extracted, df_clean>>
    /\ UNCHANGED cleanOthers

CleanNext == CleanDataframe \/ CleanDataframeAgain

(***************************************************************************)
(* CategoryLocator: extractors.creer_dictionnaire_plages_mots_cles, called *)
(* with ignorer_casse=True.                                                *)
(***************************************************************************)
\* A test that looks for the keyword only.
keyword_only_in_text(mot_cle, texte_recherche) ==
    Contains(Lower(mot_cle), texte_recherche)

\* The if / elif of the inner loop: the keyword, or else the label of the
\* category, occurs in the lowercased text of the page.
keyword_in_text(mot_cle, texte_recherche) ==
    IF Contains(Lower(mot_cle), texte_recherche) THEN TRUE
    ELSE Contains(Lower(DICO_BORDEREAU[mot_cle]), texte_recherche)

\* pages_par_mot_cle[mot_cle] once the pages from numero_page (1-based) on
\* were scanned.
RECURSIVE ScanPages(_, _, _, _)
ScanPages(texts, mot_cle, numero_page, pages) ==
    IF numero_page > Len(texts) THEN pages
    ELSE ScanPages(texts, mot_cle, numero_page + 1,
                   IF keyword_in_text(mot_cle, Lower(texts[numero_page]))
                   THEN Append(pages, numero_page)
                   ELSE pages)

\* A scan that steps over a page without text and keeps what the other
\* pages matched.
RECURSIVE ScanReadablePages(_, _, _, _)
ScanReadablePages(texts, mot_cle, numero_page, pages) ==
    IF numero_page > Len(texts) THEN pages
    ELSE ScanReadablePages(texts, mot_cle, numero_page + 1,
                           IF texts[numero_page] # NONE
                              /\ keyword_in_text(mot_cle, Lower(texts[numero_page]))
                           THEN Append(pages, numero_page)
                           ELSE pages)

creer_dictionnaire_keeps_partial(texts, mes_mots_cles) ==
    [failed |-> \E p \in 1..Len(texts) : texts[p] = NONE,
     plages |-> [mot_cle \in Range(mes_mots_cles) |->
                    LET pages == ScanReadablePages(texts, mot_cle, 1, <<>>)
                    IN  IF Len(pages) = 0 THEN <<>>
                        ELSE regrouper_pages_consecutives(pages)]]

\* creer_dictionnaire_plages_mots_cles on the texts of the pages.  A page
\* whose extract_text() gives no string raises at .lower(), and the except
\* branch returns {}.
creer_dictionnaire_plages_mots_cles(texts, mes_mots_cles) ==
    IF \E p \in 1..Len(texts) : texts[p] = NONE
    THEN [failed |-> TRUE, plages |-> <<>>]
    ELSE [failed |-> FALSE,
          plages |-> [mot_cle \in Range(mes_mots_cles) |->
                         LET pages == ScanPages(texts, mot_cle, 1, <<>>)
                         IN  IF Len(pages) = 0 THEN <<>>
                             ELSE regrouper_pages_consecutives(pages)]]

\* What extract_text() gives for a page: nothing, a heading with a keyword
\* in capitals, a label alone, a label that contains the label of another
\* category, two keywords, a text with neither, and no string at all.
PageTexts ==
    {"", "BORDEREAU A5 N° 12", "Liste des Titularisations", "Avancement AIC",
     "Bordereau A1 n° 3 - Bordereau I8 n° 4", "Sommaire", NONE}

LocInit ==
    /\ pdf_text \in UNION {[1..n -> PageTexts] : n \in 0..MaxPdfPages}
    /\ locator_result = [failed |-> FALSE, plages |-> <<>>]
    /\ loc_pc = "pdf"

\* dictionnaire_plages = creer_dictionnaire_plages_mots_cles(pdf_path,
\* MOTS_CLES, ignorer_casse=True)
CreerDictionnairePlages ==
    /\ loc_pc = "pdf"
    /\ locator_result' = creer_dictionnaire_plages_mots_cles(pdf_text, MOTS_CLES)
    /\ loc_pc' = "done"
    /\ UNCHANGED pdf_text
    /\ UNCHANGED locOthers

LocNext == CreerDictionnairePlages

(***************************************************************************)
(* MetadataParser: PDFPlumberExtractor._extract_bordereau_a5_details, the  *)
(* line dispatch on the text of one A5 page.                               *)
(***************************************************************************)
\* sep.join(parts)
RECURSIVE Join(_, _)
Join(parts, sep) ==
    IF Len(parts) = 0 THEN ""
    ELSE IF Len(parts) = 1 THEN parts[1]
    ELSE parts[1] \o sep \o Join(Tail(parts), sep)

\* s.find(sub, start), 1-based: the first position from start on where sub
\* occurs, 0 when there is none.
IndexOf(sub, s, start) ==
    LET hits == {i \in start..(Len(s) - Len(sub) + 1) : SubSeq(s, i, i + Len(sub) - 1) = sub}
    IN  IF hits = {} THEN 0 ELSE CHOOSE i \in hits : \A k \in hits : i <= k

\* s.split(sub) for a separator of several characters.
RECURSIVE SplitStr(_, _)
SplitStr(s, sub) ==
    LET i == IndexOf(sub, s, 1)
    IN  IF i = 0 THEN <<s>>
        ELSE <<SubSeq(s, 1, i - 1)>> \o SplitStr(SubSeq(s, i + Len(sub), Len(s)), sub)

\* re.search(r"<a>(.*?)<b>(.*?)<c>(.+)", s) for literals a, b, c: the lazy
\* groups stop at the first b and the first c after it, and the last group
\* needs one character at least.
SearchThreeGroups(s, a, b, c) ==
    LET ia == IndexOf(a, s, 1)
        ib == IF ia = 0 THEN 0 ELSE IndexOf(b, s, ia + Len(a))
        ic == IF ib = 0 THEN 0 ELSE IndexOf(c, s, ib + Len(b))
    IN  IF ic = 0 \/ ic + Len(c) > Len(s) THEN [matched |-> FALSE, groups |-> <<>>]
        ELSE [matched |-> TRUE,
              groups |-> <<SubSeq(s, ia + Len(a), ib - 1),
                           SubSeq(s, ib + Len(b), ic - 1),
                           SubSeq(s, ic + Len(c), Len(s))>>]

NBSP == " "

\* ligne.replace('\xa0', ' ') then re.sub(r'\s+', ' ', ...)
CleanCerneLine(ligne) == CollapseSpaces(ReSub(NBSP, " ", ligne), FALSE)

\* re.search(r"CERNE\s*:\s*(.*?)\s+Référence MyHR\s+(.+)", ligne_clean) on a
\* cleaned line that starts with "CERNE :".
SearchCerne(ligne_clean) ==
    LET rest == SubSeq(ligne_clean, Len("CERNE :") + 1, Len(ligne_clean))
        k == IndexOf(" Référence MyHR ", rest, 1)
    IN  IF k = 0 \/ k + Len(" Référence MyHR ") > Len(rest)
        THEN [matched |-> FALSE, groups |-> <<>>]
        ELSE [matched |-> TRUE,
              groups |-> <<SubSeq(rest, 1, k - 1),
                           SubSeq(rest, k + Len(" Référence MyHR "), Len(rest))>>]

\* The locals before the loop: all None.
NoPostes ==
    [UM_code |-> NONE, UM_char |-> NONE, DUM_code |-> NONE, DUM_char |-> NONE,
     SDUM_code |-> NONE, SDUM_char |-> NONE, FSDUM_code |-> NONE, FSDUM_char |-> NONE,
     Emploi |-> NONE, Lieu_de_travail |-> NONE, Publie_sous_le |-> NONE,
     Nombre_demploi |-> NONE, Date_de_forclusion |-> NONE, Motif |-> NONE,
     Position |-> NONE, GF_de_publication |-> NONE, CERNE |-> NONE,
     Reference_My_HR |-> NONE]

\* parts[2].strip() and ' '.join(parts[3:]).strip() of a labeled line.
LabeledCode(parts) == Strip(parts[3])

LabeledChar(parts) ==
    IF Len(parts) > 3 THEN Strip(Join(SubSeq(parts, 4, Len(parts)), " ")) ELSE NONE

\* bool(x) of a local that is None or a string.
Truthy(x) == x # NONE /\ x # ""

\* The branch of a "Nombre d'emploi(s) " line.
NombreBranch(p, ligne) ==
    LET parts == Split(ligne, " ")
    IN  IF Len(parts) < 3 THEN p
        ELSE LET counted == [p EXCEPT !.Nombre_demploi = Strip(parts[3])]
                 remaining == Join(SubSeq(parts, 4, Len(parts)), " ")
             IN  IF Len(parts) > 3 /\ Contains("Date de forclusion", remaining)
                 THEN LET pieces == SplitStr(remaining, "Date de forclusion")
                          location_part == Strip(pieces[1])
                          date_part == Strip(pieces[2])
                          lieu == IF Truthy(p.Lieu_de_travail) /\ location_part # ""
                                  THEN p.Lieu_de_travail \o " " \o location_part
                                  ELSE IF location_part # "" THEN location_part
                                  ELSE p.Lieu_de_travail
                      IN  [counted EXCEPT !.Lieu_de_travail = lieu,
                                          !.Date_de_forclusion = date_part]
                 ELSE counted

\* A "Nombre d'emploi(s) " branch that replaces the location instead of
\* appending to it.
nombre_line_replaces_location(p, ligne_brute) ==
    LET ligne == Strip(ligne_brute)
    IN  IF StartsWith(ligne, "Nombre d'emploi(s) ")
        THEN LET q == NombreBranch([p EXCEPT !.Lieu_de_travail = NONE], ligne)
             IN  IF q.Lieu_de_travail = NONE
                 THEN [q EXCEPT !.Lieu_de_travail = p.Lieu_de_travail]
                 ELSE q
        ELSE p

\* colonnes_postes
colonnes_postes ==
    <<"UM_code", "UM_char", "DUM_code", "DUM_char", "SDUM_code", "SDUM_char",
      "FSDUM_code", "FSDUM_char", "Emploi_candidature", "Lieu_de_travail",
      "Publié_sous_le", "Nombre_demploi", "Date_de_forclusion", "Motif",
      "Position_candidature", "GF_de_publication", "CERNE", "Reference_My_HR">>

\* One row of valeurs_postes.
ValeursPostes(p) ==
    <<p.UM_code, p.UM_char, p.DUM_code, p.DUM_char, p.SDUM_code, p.SDUM_char,
      p.FSDUM_code, p.FSDUM_char, p.Emploi, p.Lieu_de_travail, p.Publie_sous_le,
      p.Nombre_demploi, p.Date_de_forclusion, p.Motif, p.Position,
      p.GF_de_publication, p.CERNE, p.Reference_My_HR>>

parse_ligne(p, ligne_brute) ==
    LET ligne == Strip(ligne_brute)
        parts == Split(ligne, " ")
    IN  IF StartsWith(ligne, "UM :")
        THEN (IF Len(parts) >= 3
              THEN [p EXCEPT !.UM_code = LabeledCode(parts), !.UM_char = LabeledChar(parts)]
              ELSE p)
        ELSE IF StartsWith(ligne, "DUM :")
        THEN (IF Len(parts) >= 3
              THEN [p EXCEPT !.DUM_code = LabeledCode(parts), !.DUM_char = LabeledChar(parts)]
              ELSE p)
        ELSE IF StartsWith(ligne, "SDUM :")
        THEN (IF Len(parts) >= 3
              THEN [p EXCEPT !.SDUM_code = LabeledCode(parts), !.SDUM_char = LabeledChar(parts)]
              ELSE p)
        ELSE IF StartsWith(ligne, "FSDUM :")
        THEN (IF Len(parts) >= 3
              THEN [p EXCEPT !.FSDUM_code = LabeledCode(parts), !.FSDUM_char = LabeledChar(parts)]
              ELSE p)
        ELSE IF StartsWith(ligne, "Emploi :")
        THEN LET match1 == SearchThreeGroups(ligne, "Emploi : ", " Lieu de travail ",
                                             " Publié sous le n° ")
             IN  IF match1.matched
                 THEN [p EXCEPT !.Emploi = Strip(match1.groups[1]),
                                !.Lieu_de_travail = Strip(match1.groups[2]),
                                !.Publie_sous_le = Strip(match1.groups[3])]
                 ELSE p
        ELSE IF StartsWith(ligne, "Nombre d'emploi(s) ")
        THEN NombreBranch(p, ligne)
        ELSE IF StartsWith(ligne, "Motif ")
        THEN LET match3 == SearchThreeGroups(ligne, "Motif ", " Position ",
                                             " GF de publication ")
             IN  IF match3.matched
                 THEN [p EXCEPT !.Motif = Strip(match3.groups[1]),
                                !.Position = Strip(match3.groups[2]),
                                !.GF_de_publication = Strip(match3.groups[3])]
                 ELSE p
        ELSE IF StartsWith(ligne, "CERNE :")
        THEN LET match4 == SearchCerne(CleanCerneLine(ligne))
             IN  IF match4.matched
                 THEN [p EXCEPT !.CERNE = Strip(match4.groups[1]),
                                !.Reference_My_HR = Strip(match4.groups[2])]
                 ELSE p
        ELSE p

\* The lines an A5 page can hold.
PageLines ==
    {"Emploi : Technicien Lieu de travail Lyon Publié sous le n° 24-001",
     "Nombre d'emploi(s) 1 Cedex 03 Date de forclusion 15/03/2024",
     "Nombre d'emploi(s) 2 Date de forclusion 01/02/2024",
     "Nombre d'emploi(s) 3",
     " Nombre d'emploi(s) 1 Paris",
     "Nombre d'emploi(s)  4 Nice Date de forclusion",
     "UM : 6123 Direction Sud",
     "Motif Vacance Position 12 GF de publication 09",
     "CERNE : 123  Référence MyHR 456"}

A5Init ==
    /\ lignes \in UNION {[1..n -> PageLines] : n \in 0..MaxLines}
    /\ ligne_index = 0
    /\ postes = NoPostes
    /\ valeurs_postes = <<>>
    /\ a5_pc = "lines"

\* for ligne in lignes: one line.
ParseLigne ==
    /\ a5_pc = "lines"
    /\ ligne_index < Len(lignes)
    /\ postes' = parse_ligne(postes, lignes[ligne_index + 1])
    /\ ligne_index' = ligne_index + 1
    /\ UNCHANGED <<lignes, valeurs_postes, a5_pc>>
    /\ UNCHANGED a5Others

\* valeurs_postes = [[UM_code, ..., Reference_My_HR]] * df.shape[0]
BuildValeursPostes ==
    /\ a5_pc = "lines"
    /\ ligne_index = Len(lignes)
    /\ valeurs_postes' = ValeursPostes(postes)
    /\ a5_pc' = "done"
    /\ UNCHANGED <<lignes, ligne_index, postes>>
    /\ UNCHANGED a5Others

A5Next == ParseLigne \/ BuildValeursPostes

(***************************************************************************)
(* Document: PDFPlumberExtractor.extract_ranges,                           *)
(* CategoryProcessor.process_category and                                  *)
(* DictionaryCSVProcessor.process_all_categories on the pages of one PDF.  *)
(* A page is what the extraction primitives do on it: fault is "tables"    *)
(* when page.extract_tables() raises and "text" when the PyPDF2 text read  *)
(* raises; tables are the tables pdfplumber finds, lists of rows of cells  *)
(* with the header first and None for a cell without text.                 *)
(***************************************************************************)
\* cleaned_table: every None cell becomes "".
CleanedTable(table) ==
    [r \in 1..Len(table) |->
        [j \in 1..Len(table[r]) |-> IF table[r][j] = NONE THEN "" ELSE table[r][j]]]

\* The loop of _extract_bordereau_a5_details over the lines of the page.
RECURSIVE ParseLignes(_, _, _)
ParseLignes(page_lignes, i, p) ==
    IF i > Len(page_lignes) THEN p
    ELSE ParseLignes(page_lignes, i + 1, parse_ligne(p, page_lignes[i]))

\* PDFPlumberExtractor._extract_bordereau_a5_details: the values parsed
\* from the text of the page, beside every row of df.
_extract_bordereau_a5_details(page_lignes, df) ==
    DataFrame(df.columns \o colonnes_postes,
              [r \in 1..Len(df.rows) |->
                  df.rows[r] \o ValeursPostes(ParseLignes(page_lignes, 1, NoPostes))])

\* if table and len(table) > 1
HasDataRow(table) == Len(table) > 1

\* The frames the loop over page.extract_tables() appends for one page.
PageFrames(page, category) ==
    LET kept == SelectSeq(page.tables, HasDataRow)
    IN  [t \in 1..Len(kept) |->
            LET cleaned_table == CleanedTable(kept[t])
                df == DataFrame(cleaned_table[1], Tail(cleaned_table))
            IN  IF category = "Bordereau A5 n"
                THEN _extract_bordereau_a5_details(page.lignes, df)
                ELSE df]

\* An exception is raised on the page: by page.extract_tables(), or by the
\* text read _extract_bordereau_a5_details makes for a table of an A5 page.
PageRaises(page, category) ==
    \/ page.fault = "tables"
    \/ /\ page.fault = "text"
       /\ category = "Bordereau A5 n"
       /\ \E t \in 1..Len(page.tables) : HasDataRow(page.tables[t])

\* The loop over all_pages, from position k on: page numbers beyond the
\* end of the document are skipped.
RECURSIVE ExtractPages(_, _, _, _)
ExtractPages(pages, page_nums, k, category) ==
    IF k > Len(page_nums) THEN <<>>
    ELSE IF page_nums[k] <= Len(pages)
         THEN PageFrames(pages[page_nums[k]], category)
              \o ExtractPages(pages, page_nums, k + 1, category)
         ELSE ExtractPages(pages, page_nums, k + 1, category)

\* The position in all_pages of the first page that raises, 0 when none.
FirstRaise(pages, page_nums, category) ==
    LET bad == {k \in 1..Len(page_nums) :
                   /\ page_nums[k] <= Len(pages)
                   /\ PageRaises(pages[page_nums[k]], category)}
    IN  IF bad = {} THEN 0 ELSE CHOOSE k \in bad : \A m \in bad : k <= m

\* An extraction that keeps the tables found before the page that raises.
extract_ranges_keeps_partial(pages, page_ranges, category) ==
    LET parsed == parse_multiple_ranges(page_ranges)
    IN  IF parsed.err THEN <<>>
        ELSE LET k == FirstRaise(pages, parsed.pages, category)
             IN  IF k > 0
                 THEN ExtractPages(pages, SubSeq(parsed.pages, 1, k - 1), 1, category)
                 ELSE ExtractPages(pages, parsed.pages, 1, category)

\* PDFPlumberExtractor.extract_ranges: any exception gives [].
extract_ranges(pages, page_ranges, category) ==
    LET parsed == parse_multiple_ranges(page_ranges)
    IN  IF parsed.err THEN <<>>
        ELSE IF FirstRaise(pages, parsed.pages, category) > 0 THEN <<>>
        ELSE ExtractPages(pages, parsed.pages, 1, category)

\* config.DEFAULT_CLEANING_RULES
DEFAULT_CLEANING_RULES ==
    [remove_empty_rows |-> TRUE, remove_empty_columns |-> TRUE,
     strip_whitespace |-> TRUE, regex_patterns |-> <<>>]

\* CategoryProcessor._combine_tables
_combine_tables(tables) ==
    IF Len(tables) = 1 THEN tables[1]
    ELSE LET c == PdConcat(SelectSeq(tables, IsUsable))
         IN  IF c.raised THEN Largest(tables) ELSE c.df

\* CategoryProcessor.process_category, on the tables extract_ranges
\* returned; no column mapping and no filter are configured.
process_category(all_tables) ==
    IF Len(all_tables) = 0 THEN NoneDF
    ELSE LET cleaned_tables ==
                 SelectSeq([i \in 1..Len(all_tables) |->
                               clean_dataframe(DEFAULT_CLEANING_RULES, all_tables[i])],
                           IsUsable)
         IN  IF Len(cleaned_tables) = 0 THEN NoneDF
             ELSE _combine_tables(cleaned_tables)

\* d[key] = value
DictSet(d, key, value) ==
    IF \E i \in 1..Len(d) : d[i].key = key
    THEN [i \in 1..Len(d) |->
            IF d[i].key = key THEN [key |-> key, value |-> value] ELSE d[i]]
    ELSE Append(d, [key |-> key, value |-> value])

\* The tuple _create_final_csv returns when it writes nothing.
NothingWritten ==
    [csv_filepath |-> FALSE, processing_results |-> <<>>, success_count |-> 0,
     csv_data |-> NoneDF, merged_df |-> NoneDF]

\* The tuple _create_final_csv returns to process_all_categories.
FinalCsvTuple(dataframes, results, count) ==
    IF Len(dataframes) > 0
    THEN LET m == _concatenate_all_dataframes(dataframes)
         IN  IF IsUsable(m)
             THEN [csv_filepath |-> TRUE, processing_results |-> results,
                   success_count |-> count, csv_data |-> m, merged_df |-> m]
             ELSE NothingWritten
    ELSE NothingWritten

\* The name of the uploaded file.
DocumentFilename == "rapport.pdf"

\* The tables of a document share their header: a named one, one with a
\* cell without text, and one that repeats a label.
RawHeaders ==
    {<<"Nom", "Grade">>, <<"Nom", NONE>>, <<NONE, "Grade">>,
     <<"Nom", "Date_4", "Date", "Date">>}

\* A row of a raw table: the cells given, then a date under every further
\* header.
RawRow(cells, header) ==
    [j \in 1..Len(header) |-> IF j <= Len(cells) THEN cells[j] ELSE "12/05"]

RawTable(header, n) ==
    IF n = 1
    THEN <<header, RawRow(<<"Dupont", NONE>>, header), RawRow(<<"Martin", "B">>, header)>>
    ELSE <<header, RawRow(<<"", "C">>, header), RawRow(<<"Durand", "D">>, header)>>

\* The text of an A5 page.
A5PageLignes == <<"UM : 6123 Direction Sud", "Nombre d'emploi(s) 1">>

PageContents(header) ==
    {[fault |-> "none", tables |-> <<>>, lignes |-> A5PageLignes],
     [fault |-> "none", tables |-> <<RawTable(header, 1)>>, lignes |-> A5PageLignes],
     [fault |-> "none", tables |-> <<<<header>>, RawTable(header, 2)>>, lignes |-> A5PageLignes],
     [fault |-> "tables", tables |-> <<>>, lignes |-> A5PageLignes],
     [fault |-> "text", tables |-> <<RawTable(header, 1)>>, lignes |-> A5PageLignes]}

\* The range tokens the locator can give a category.
RangeChoices == {<<>>, <<"1-1">>, <<"1-2">>, <<"2-3">>}

DocInit ==
    /\ \E header \in RawHeaders :
          pdf_pages \in UNION {[1..n -> PageContents(header)] : n \in 1..MaxDocPages}
    /\ \E r1, r2 \in RangeChoices :
          page_ranges_dict = <<[key |-> "Bordereau A1 n", value |-> r1],
                               [key |-> "Bordereau A5 n", value |-> r2]>>
    /\ category_index = 0
    /\ tables_log = <<>>
    /\ combined_log = <<>>
    /\ repaired_log = <<>>
    /\ all_dataframes = <<>>
    /\ processing_results = <<>>
    /\ success_count = 0
    /\ doc_return = NothingWritten
    /\ doc_raised = FALSE
    /\ doc_pc = "categories"

\* The last element of a list.
Last(seq) == seq[Len(seq)]

\* One turn of the loop of process_all_categories over the page map.
ProcessCategoryTurn ==
    /\ doc_pc = "categories"
    /\ category_index < Len(page_ranges_dict)
    /\ category_index' = category_index + 1
    /\ tables_log' = Append(tables_log,
                            extract_ranges(pdf_pages, page_ranges_dict[category_index'].value,
                                           page_ranges_dict[category_index'].key))
    /\ combined_log' = Append(combined_log, process_category(Last(tables_log')))
    /\ repaired_log' = Append(repaired_log,
                              IF IsUsable(Last(combined_log'))
                              THEN _process_dataframe_columns(Last(combined_log'))
                              ELSE [raised |-> FALSE, df |-> NoneDF])
    /\ LET category == page_ranges_dict[category_index'].key
           labelled == _add_metadata_columns(Last(repaired_log').df, DocumentFilename, category)
       IN  IF ~IsUsable(Last(combined_log'))
           THEN /\ processing_results' =
                      DictSet(processing_results, category,
                              [success |-> FALSE, rows |-> 0, cols |-> 0])
                /\ UNCHANGED <<all_dataframes, success_count, doc_raised, doc_pc>>
           ELSE IF Last(repaired_log').raised \/ labelled.raised
           THEN /\ doc_raised' = TRUE
                /\ doc_pc' = "raised"
                /\ UNCHANGED <<all_dataframes, processing_results, success_count>>
           ELSE /\ all_dataframes' =
                      Append(all_dataframes, _clean_and_filter_data(labelled.df, category))
                /\ processing_results' =
                      DictSet(processing_results, category,
                              [success |-> TRUE, rows |-> Len(Last(all_dataframes').rows),
                               cols |-> Len(Last(all_dataframes').columns)])
                /\ success_count' = success_count + 1
                /\ UNCHANGED <<doc_raised, doc_pc>>
    /\ UNCHANGED <<pdf_pages, page_ranges_dict, doc_return>>
    /\ UNCHANGED docOthers

\* return self._create_final_csv(all_dataframes, ..., processing_results,
\* success_count)
ReturnFinalCsv ==
    /\ doc_pc = "categories"
    /\ category_index = Len(page_ranges_dict)
    /\ doc_return' = FinalCsvTuple(all_dataframes, processing_results, success_count)
    /\ doc_pc' = "returned"
    /\ UNCHANGED <<pdf_pages, page_ranges_dict, category_index, tables_log, combined_log, repaired_log,
                   all_dataframes, processing_results, success_count, doc_raised>>
    /\ UNCHANGED docOthers

DocNext == ProcessCategoryTurn \/ ReturnFinalCsv

(***************************************************************************)
(* Batch of uploaded files: process_uploaded_files of app.py.  A file is   *)
(* a name and a content; the content decides what process_single_pdf does  *)
(* with it.  all_results is a Python dict: a sequence of (key, value)      *)
(* entries in insertion order, a key occurring once.                       *)
(***************************************************************************)
\* create_empty_result(filename)
create_empty_result(filename) ==
    [pdf_filename |-> filename, csv_data |-> NoneDF, merged_dataframe |-> NoneDF]

\* The names and the contents of the uploaded files: a file that makes the
\* extraction raise, a file without any table, and files with the tables
\* of one category.
FileNames == {"a.pdf", "b.pdf"}

FileContents == {"corrupt", "blank", "grades", "emplois", "dates"}

UploadedFiles == [name : FileNames, content : FileContents]

\* all_dataframes of process_all_categories for the file: the prepared
\* table of its category, of 2 rows, Document being the base name.
PreparedTables(uploaded_file) ==
    IF uploaded_file.content = "blank" THEN <<>>
    ELSE <<DataFrame(TableColumns(uploaded_file.content),
                     [r \in 1..2 |->
                        [TableRows(uploaded_file.content, 2)[r]
                            EXCEPT ![1] = SplitExtBase(uploaded_file.name)]])>>

\* process_single_pdf: it raises, or returns the result of the document;
\* csv_data is the dataset the bytes serialise.
process_single_pdf(uploaded_file) ==
    IF uploaded_file.content = "corrupt"
    THEN [raised |-> TRUE, result |-> create_empty_result("")]
    ELSE LET merged_df_ == _create_final_csv(PreparedTables(uploaded_file))
         IN  [raised |-> FALSE,
              result |-> [pdf_filename |-> uploaded_file.name,
                          csv_data |-> merged_df_,
                          merged_dataframe |-> merged_df_]]

\* result['merged_dataframe'] of every entry of all_results, in dict order
MergedDataframes(results) ==
    [i \in 1..Len(results) |-> results[i].value.merged_dataframe]

BatchInit ==
    /\ uploaded_files \in UNION {[1..n -> UploadedFiles] : n \in 0..MaxFiles}
    /\ file_index = 0
    /\ all_results = <<>>
    /\ total_success = 0
    /\ global_csv_data = NoneDF
    /\ total_processed = 0
    /\ batch_pc = "loop"

\* One turn of the loop over uploaded_files: try, except, finally.
ProcessUploadedFile ==
    /\ batch_pc = "loop"
    /\ file_index < Len(uploaded_files)
    /\ LET uploaded_file == uploaded_files[file_index + 1]
           run == process_single_pdf(uploaded_file)
       IN  IF run.raised
           THEN /\ all_results' = DictSet(all_results, uploaded_file.name,
                                          create_empty_result(uploaded_file.name))
                /\ UNCHANGED total_success
           ELSE /\ all_results' = DictSet(all_results, uploaded_file.name, run.result)
                /\ total_success' = IF run.result.csv_data.none
                                    THEN total_success ELSE total_success + 1
    /\ file_index' = file_index + 1
    /\ UNCHANGED <<uploaded_files, global_csv_data, total_processed, batch_pc>>
    /\ UNCHANGED batchOthers

\* global_csv_data, global_output = capture_prints(run_global_csv_creation)
RunGlobalCsvCreation ==
    /\ batch_pc = "loop"
    /\ file_index = Len(uploaded_files)
    /\ global_csv_data' = create_global_csv(MergedDataframes(all_results))
    /\ batch_pc' = "finalize"
    /\ UNCHANGED <<uploaded_files, file_index, all_results, total_success, total_processed>>
    /\ UNCHANGED batchOthers

\* finalize_processing
FinalizeProcessing ==
    /\ batch_pc = "finalize"
    /\ total_processed' = Len(uploaded_files)
    /\ batch_pc' = "done"
    /\ UNCHANGED <<uploaded_files, file_index, all_results, total_success, global_csv_data>>
    /\ UNCHANGED batchOthers

BatchNext == ProcessUploadedFile \/ RunGlobalCsvCreation \/ FinalizeProcessing

\* The state of a component that a specification does not exercise.
CodecIdle ==
    /\ pages_list = <<>>
    /\ plages = <<>>
    /\ all_pages = [err |-> FALSE, pages |-> <<>>]
    /\ regrouped = <<>>
    /\ page_range = ""
    /\ range_result = [err |-> FALSE, pages |-> <<>>]
    /\ codec_pc = "idle"

AsmIdle ==
    /\ pdf_filename = ""
    /\ category_name = ""
    /\ df_category = NoneDF
    /\ df_columns = NoneDF
    /\ df_metadata = NoneDF
    /\ df_prepared = NoneDF
    /\ asm_raised = FALSE
    /\ asm_pc = "idle"

ConcIdle ==
    /\ dataframes_list = <<>>
    /\ merged_df = NoneDF
    /\ final_csv = NoneDF
    /\ global_csv = NoneDF
    /\ conc_pc = "idle"

CovIdle ==
    /\ total_pages = 0
    /\ pdf_unreadable = FALSE
    /\ dictionnaire_plages = <<>>
    /\ coverage_info = <<>>
    /\ cov_pc = "idle"

CleanIdle ==
    /\ rules = <<>>
    /\ df_extracted = NoneDF
    /\ df_clean = NoneDF
    /\ df_clean_again = NoneDF
    /\ clean_pc = "idle"

LocIdle ==
    /\ pdf_text = <<>>
    /\ locator_result = <<>>
    /\ loc_pc = "idle"

A5Idle ==
    /\ lignes = <<>>
    /\ ligne_index = 0
    /\ postes = <<>>
    /\ valeurs_postes = <<>>
    /\ a5_pc = "idle"

DocIdle ==
    /\ pdf_pages = <<>>
    /\ page_ranges_dict = <<>>
    /\ category_index = 0
    /\ tables_log = <<>>
    /\ combined_log = <<>>
    /\ repaired_log = <<>>
    /\ all_dataframes = <<>>
    /\ processing_results = <<>>
    /\ success_count = 0
    /\ doc_return = <<>>
    /\ doc_raised = FALSE
    /\ doc_pc = "idle"

BatchIdle ==
    /\ uploaded_files = <<>>
    /\ file_index = 0
    /\ all_results = <<>>
    /\ total_success = 0
    /\ global_csv_data = NoneDF
    /\ total_processed = 0
    /\ batch_pc = "idle"

InitCodec == CodecInit /\ AsmIdle /\ ConcIdle /\ CovIdle /\ CleanIdle /\ LocIdle /\ BatchIdle /\ A5Idle /\ DocIdle

SpecCodec == InitCodec /\ [][CodecNext]_vars

InitAssembly == AsmInit /\ CodecIdle /\ ConcIdle /\ CovIdle /\ CleanIdle /\ LocIdle /\ BatchIdle /\ A5Idle /\ DocIdle

SpecAssembly == InitAssembly /\ [][AsmNext]_vars

InitConcat == ConcInit /\ CodecIdle /\ AsmIdle /\ CovIdle /\ CleanIdle /\ LocIdle /\ BatchIdle /\ A5Idle /\ DocIdle

SpecConcat == InitConcat /\ [][ConcNext]_vars

InitCoverage == CovInit /\ CodecIdle /\ AsmIdle /\ ConcIdle /\ CleanIdle /\ LocIdle /\ BatchIdle /\ A5Idle /\ DocIdle

SpecCoverage == InitCoverage /\ [][CovNext]_vars

InitCleaner == CleanInit /\ CodecIdle /\ AsmIdle /\ ConcIdle /\ CovIdle /\ LocIdle /\ BatchIdle /\ A5Idle /\ DocIdle

SpecCleaner == InitCleaner /\ [][CleanNext]_vars

InitLocator == LocInit /\ CodecIdle /\ AsmIdle /\ ConcIdle /\ CovIdle /\ CleanIdle /\ BatchIdle /\ A5Idle /\ DocIdle

SpecLocator == InitLocator /\ [][LocNext]_vars

InitBatch == BatchInit /\ CodecIdle /\ AsmIdle /\ ConcIdle /\ CovIdle /\ CleanIdle /\ LocIdle /\ A5Idle /\ DocIdle

SpecBatch == InitBatch /\ [][BatchNext]_vars

InitA5 == A5Init /\ CodecIdle /\ AsmIdle /\ ConcIdle /\ CovIdle /\ CleanIdle /\ LocIdle /\ BatchIdle /\ DocIdle

SpecA5 == InitA5 /\ [][A5Next]_vars

InitDocument == DocInit /\ CodecIdle /\ AsmIdle /\ ConcIdle /\ CovIdle /\ CleanIdle /\ LocIdle /\ BatchIdle /\ A5Idle

SpecDocument == InitDocument /\ [][DocNext]_vars

(***************************************************************************)
(* Properties of the table cleaner.                                        *)
(***************************************************************************)
\* C9 as stated: cleaning a cleaned table changes nothing, for every table
\* and every cleaning configuration, regex_patterns included.
C9_IdempotentAnyRules ==
    clean_pc = "again" => df_clean_again = df_clean

\* C9 as amended: cleaning a cleaned table changes nothing, for every table
\* and every configuration of the three flags that has no regex_patterns.
C9_IdempotentWithoutRegex ==
    (clean_pc = "again" /\ Len(rules.regex_patterns) = 0) =>
        df_clean_again = df_clean

\* A table that the first cleaning changed on every count (a row and a
\* column dropped, a cell stripped) and the second left alone.
C9_Witness ==
    /\ clean_pc = "again"
    /\ Len(rules.regex_patterns) = 0
    /\ rules.remove_empty_rows /\ rules.remove_empty_columns /\ rules.strip_whitespace
    /\ df_extracted.rows = << <<" a ", NONE>>, <<NONE, NONE>> >>
    /\ df_clean = DataFrame(<<"c0">>, << <<"a">> >>)
    /\ df_clean_again = df_clean

(***************************************************************************)
(* Properties of the coverage report.                                      *)
(***************************************************************************)
\* Page p lies between the two numbers of the token "a-b".
TokenCovers(t, p) ==
    LET ends == Split(t, "-")
    IN  PyInt(ends[1]).val <= p /\ p <= PyInt(ends[2]).val

\* The pages some token of some category covers.
CoveredPages ==
    {p \in 1..(MaxTotalPages + MaxCovPage + 1) :
        \E c \in DOMAIN dictionnaire_plages :
            \E i \in 1..Len(dictionnaire_plages[c]) :
                TokenCovers(dictionnaire_plages[c][i], p)}

\* C8: on a readable document, the processed pages are the union of the
\* pages of every token of every category, the unprocessed pages are
\* 1..totalPages minus the processed ones, and the percentage is
\* processed / totalPages x 100 to the nearest tenth; 0 for an empty document.
C8_Coverage ==
    (cov_pc = "done" /\ ~pdf_unreadable) =>
        /\ coverage_info.total_pages = total_pages
        /\ IsSortedListOf(coverage_info.pages_traitees, CoveredPages)
        /\ IsSortedListOf(coverage_info.pages_non_traitees,
                          (1..total_pages) \ CoveredPages)
        /\ coverage_info.nb_pages_traitees = Cardinality(CoveredPages)
        /\ coverage_info.nb_pages_non_traitees =
              Cardinality((1..total_pages) \ CoveredPages)
        /\ IF total_pages = 0 THEN coverage_info.pourcentage_couverture = 0
           ELSE LET d == coverage_info.pourcentage_couverture * total_pages
                         - 1000 * Cardinality(CoveredPages)
                IN  2 * d <= total_pages /\ 2 * (0 - d) <= total_pages

\* 10 pages and ["1-3", "5-5"] for one category: 4 processed, 4 and 6..10
\* unprocessed, 40.0 %.
C8_Witness ==
    /\ cov_pc = "done"
    /\ ~pdf_unreadable
    /\ total_pages = 10
    /\ dictionnaire_plages["Bordereau A1 n"] = <<"1-3", "5-5">>
    /\ dictionnaire_plages["Bordereau A5 n"] = <<>>
    /\ coverage_info.nb_pages_traitees = 4
    /\ coverage_info.pages_non_traitees = <<4, 6, 7, 8, 9, 10>>
    /\ coverage_info.pourcentage_couverture = 400

\* An empty document: 0 % and no division.
C8_WitnessEmptyDocument ==
    /\ cov_pc = "done"
    /\ ~pdf_unreadable
    /\ total_pages = 0
    /\ coverage_info.nb_pages_traitees > 0
    /\ coverage_info.pourcentage_couverture = 0

(***************************************************************************)
(* Properties of the consolidation.                                        *)
(***************************************************************************)
RECURSIVE SumRows(_)
SumRows(frames) ==
    IF Len(frames) = 0 THEN 0 ELSE Len(Head(frames).rows) + SumRows(Tail(frames))

\* C6: the number of rows of _concatenate_all_dataframes(tables) is the sum
\* of the numbers of rows of the tables, whatever names the rows share.
C6_RowCountIsSum ==
    conc_pc \in {"merged", "final", "global"} =>
        Len(merged_df.rows) = SumRows(dataframes_list)

BasicColumns == {"Document", "Catégorie", "Nom & Prénom"}

\* A dataset that is present, holds the three basic columns and has no row.
IsEmptyDataset(df) ==
    /\ ~df.none
    /\ BasicColumns \subseteq Range(df.columns)
    /\ Len(df.rows) = 0

\* C7: consolidating zero valid tables (an empty list, or only null or empty
\* tables), per document or across documents, returns a present dataset
\* with at least Document, Catégorie, Nom & Prénom and zero rows.
C7_NoValidTableGivesEmptyDataset ==
    (conc_pc = "global" /\ \A i \in 1..Len(dataframes_list) : ~IsUsable(dataframes_list[i])) =>
        /\ IsEmptyDataset(merged_df)
        /\ IsEmptyDataset(final_csv)
        /\ IsEmptyDataset(global_csv)

(***************************************************************************)
(* Properties of the category assembly.                                    *)
(***************************************************************************)
\* The positions of the unnamed headers of the extracted table.
UnnamedPositions == {j \in 1..Len(df_category.columns) : IsUnnamed(df_category.columns[j])}

\* C4: header repair on ["Nom", "", "Unnamed: 2"] with first data row
\* ["Dupont", "A", "B"] yields ["Nom", "Nom_A", "Nom_A_B"]; an unnamed column
\* is named <left neighbour's name>_<its own stripped first-row value>, and
\* only the first unnamed column of a run renames its left neighbour, so an
\* unnamed left neighbour keeps the name it was given.
C4_HeaderRepairExample ==
    (asm_pc \in {"columns", "metadata", "prepared"} /\ UnnamedPositions # {}) =>
        /\ (/\ df_category.columns = <<"Nom", "", "Unnamed: 2">>
            /\ df_category.rows[1] = <<"Dupont", "A", "B">>)
              => df_columns.columns = <<"Nom", "Nom_A", "Nom_A_B">>
        /\ \A j \in UnnamedPositions :
              (j - 1) \in UnnamedPositions =>
                 df_columns.columns[j] =
                    CleanColumnName(df_columns.columns[j - 1] \o "_"
                                       \o Strip(PyStr(df_category.rows[1][j])))

\* The rows the A5 post-rule is to produce from the rows of a table whose
\* content columns start after the first skip columns.
A5Expected(rows, skip) ==
    [r \in 1..Len(rows) |->
        IF Len(rows[r]) >= skip + 6 /\ IsAucuneCandidature(rows[r][skip + 6])
        THEN [rows[r] EXCEPT ![skip + 1] = "aucune candidature", ![skip + 6] = ""]
        ELSE rows[r]]

\* C5: for "Bordereau A5 n", the rows whose 6th content column (the 6th
\* column of the extracted table, Document and Catégorie not counted) is
\* "aucune candidature" up to case and surrounding blanks get the 1st content
\* column set to "aucune candidature" and the 6th set to ""; every other row
\* and every other column is untouched.
C5_A5PostRule ==
    (asm_pc = "prepared" /\ category_name = "Bordereau A5 n") =>
        (Len(df_prepared.rows) = Len(df_metadata.rows)
            => df_prepared.rows = A5Expected(df_metadata.rows, 2))

(***************************************************************************)
(* Properties of the page-range codec.                                     *)
(***************************************************************************)
\* The maximal runs of consecutive numbers of S, as <<start, end>>.
MaximalRuns(S) ==
    {r \in S \X S : /\ r[1] <= r[2]
                    /\ \A p \in r[1]..r[2] : p \in S
                    /\ (r[1] - 1) \notin S
                    /\ (r[2] + 1) \notin S}

\* C1: parsing the tokens of a grouping gives back the sorted distinct pages
\* that were grouped, and grouping those pages again gives the same tokens.
C1_RoundTrip ==
    /\ codec_pc \in {"parsed", "regrouped"} =>
          /\ ~all_pages.err
          /\ IsSortedListOf(all_pages.pages, Range(pages_list))
    /\ codec_pc = "regrouped" => regrouped = plages

C1_Witness ==
    /\ codec_pc = "regrouped"
    /\ Cardinality(Range(pages_list)) >= 4
    /\ Len(plages) >= 3
    /\ all_pages.pages = SortedSet(Range(pages_list))

\* C2: parse_range raises on every inverted range and on every non-numeric
\* token, and hands back no page list for it.
C2_InvertedOrNonNumericRaises ==
    (codec_pc = "token_parsed" /\ page_range \in InvertedTokens \cup NonNumericTokens)
        => range_result.err

\* C3: the grouping returns, in ascending order, one "start-end" token per
\* maximal run of the set of the pages it was given, a lone page p as "p-p".
C3_MaximalRuns ==
    codec_pc # "start" /\ codec_pc # "token_parsed" =>
        LET S == Range(pages_list)
            R == MaximalRuns(S)
            starts == {r[1] : r \in R}
        IN  /\ Len(plages) = Cardinality(R)
            /\ \A k \in 1..Len(plages) :
                  \E r \in R :
                     /\ Cardinality({s \in starts : s < r[1]}) = k - 1
                     /\ plages[k] = IntToStr(r[1]) \o "-" \o IntToStr(r[2])
            /\ \A r1, r2 \in R :
                  r1 # r2 => (r1[2] + 1 < r2[1] \/ r2[2] + 1 < r1[1])
            /\ (pages_list = <<1, 2, 3, 7, 8, 10>> =>
                  plages = <<"1-3", "7-8", "10-10">>)

C3_Witness ==
    /\ codec_pc = "grouped"
    /\ pages_list = <<1, 2, 3, 7, 8, 10>>
    /\ plages = <<"1-3", "7-8", "10-10">>

C3_WitnessUnordered ==
    /\ codec_pc = "grouped"
    /\ pages_list = <<7, 3, 7>>
    /\ plages = <<"3-3", "7-7">>

(***************************************************************************)
(* Properties of the category locator.                                     *)
(***************************************************************************)
\* Page p is in one of the ranges the locator returned for category c.
InPageRange(c, p) ==
    \E i \in 1..Len(locator_result.plages[c]) :
        TokenCovers(locator_result.plages[c][i], p)

\* C10: after a successful scan, page p is in the page range of category c
\* if and only if the lowercased text of page p contains the lowercased
\* keyword of c or the lowercased label of c.
C10_Membership ==
    (loc_pc = "done" /\ ~locator_result.failed) =>
        \A c \in Range(MOTS_CLES) :
            \A p \in 1..(MaxPdfPages + 1) :
                InPageRange(c, p) <=>
                    /\ p <= Len(pdf_text)
                    /\ \/ Contains(Lower(c), Lower(pdf_text[p]))
                       \/ Contains(Lower(DICO_BORDEREAU[c]), Lower(pdf_text[p]))

\* A scan that lists a page under two categories (by label), another under
\* one (by keyword), and a third under none.
C10_Witness ==
    /\ loc_pc = "done"
    /\ ~locator_result.failed
    /\ pdf_text = <<"Sommaire", "Avancement AIC", "BORDEREAU A5 N° 12">>
    /\ locator_result.plages["Bordereau A7 n"] = <<"2-2">>
    /\ locator_result.plages["Bordereau A7 bis n"] = <<"2-2">>
    /\ locator_result.plages["Bordereau A5 n"] = <<"3-3">>
    /\ locator_result.plages["Bordereau A1 n"] = <<>>


\* The page range of category c in a page map: a category the map lacks
\* has an empty one.
PageRangeOf(map, c) == IF c \in DOMAIN map THEN map[c] ELSE <<>>

\* Text extraction throws on some page of the document.
ExtractionThrows == \E p \in 1..Len(pdf_text) : pdf_text[p] = NONE

\* C11: if text extraction throws on any page, every supplied category has
\* an empty page range in the map returned, whatever the pages scanned
\* before the fault matched.
C11_FailsClosed ==
    (loc_pc = "done" /\ ExtractionThrows) =>
        \A c \in Range(MOTS_CLES) : PageRangeOf(locator_result.plages, c) = <<>>

\* A fault on the last page, after a page that matches a keyword and a page
\* that matches two labels.
C11_Witness ==
    /\ loc_pc = "done"
    /\ pdf_text = <<"BORDEREAU A5 N° 12", "Avancement AIC", NONE>>
    /\ locator_result.failed
    /\ PageRangeOf(locator_result.plages, "Bordereau A5 n") = <<>>

\* C12: no surviving row of a table the category assembly produced has a
\* blank (empty or whitespace-only) value in the original first content
\* column, the 3rd column once Document and Catégorie are prepended.
C12_NoBlankFirstContentColumn ==
    asm_pc = "prepared" =>
        \A r \in 1..Len(df_prepared.rows) : Strip(PyStr(df_prepared.rows[r][3])) # ""

\* C13: in a table the category assembly produced for document d and
\* category c, Document and Catégorie are the first two columns and every
\* row holds d's base name and c's display label in them.
C13_MetadataColumns ==
    asm_pc = "prepared" =>
        /\ SubSeq(df_prepared.columns, 1, 2) = <<"Document", "Catégorie">>
        /\ \A r \in 1..Len(df_prepared.rows) :
              /\ df_prepared.rows[r][1] = SplitExtBase(pdf_filename)
              /\ df_prepared.rows[r][2] = DICO_BORDEREAU[category_name]

\* The valid (present, non-empty) tables of the list handed to the
\* consolidation.
ValidTables == SelectSeq(dataframes_list, IsUsable)

\* Where a column was first seen: in the earliest table that has it, at its
\* leftmost position there.
FirstSeen(col) ==
    LET i == CHOOSE i \in 1..Len(ValidTables) :
                 /\ col \in Range(ValidTables[i].columns)
                 /\ \A k \in 1..(i - 1) : col \notin Range(ValidTables[k].columns)
        j == CHOOSE j \in 1..Len(ValidTables[i].columns) :
                 /\ ValidTables[i].columns[j] = col
                 /\ \A k \in 1..(j - 1) : ValidTables[i].columns[k] # col
    IN  <<i, j>>

SeenBefore(a, b) ==
    \/ FirstSeen(a)[1] < FirstSeen(b)[1]
    \/ FirstSeen(a)[1] = FirstSeen(b)[1] /\ FirstSeen(a)[2] < FirstSeen(b)[2]

\* The basic columns the valid tables hold, in their fixed order.
BasicColumnsPresent ==
    SelectSeq(<<"Document", "Catégorie", "Nom & Prénom">>,
              LAMBDA c : \E i \in 1..Len(ValidTables) : c \in Range(ValidTables[i].columns))

\* columns is the union of the columns of the valid tables, each once: the
\* basic ones first, the others after them in first-seen order.
IsHarmonizedOrder(columns) ==
    /\ Range(columns) = UNION {Range(ValidTables[i].columns) : i \in 1..Len(ValidTables)}
    /\ ~HasDuplicates(columns)
    /\ SubSeq(columns, 1, Len(BasicColumnsPresent)) = BasicColumnsPresent
    /\ \A j, k \in (Len(BasicColumnsPresent) + 1)..Len(columns) :
          j < k => SeenBefore(columns[j], columns[k])

\* C14: the columns of a consolidated dataset are the union of the inputs'
\* columns; Document, Catégorie, Nom & Prénom come first in that order when
\* present, and the remaining columns follow in first-seen order across the
\* inputs taken in list order.
C14_ColumnOrder ==
    (conc_pc = "global" /\ Len(ValidTables) > 0) =>
        /\ IsHarmonizedOrder(merged_df.columns)
        /\ IsHarmonizedOrder(global_csv.columns)

\* df holds a null cell.
HasNullCell(df) ==
    \E r \in 1..Len(df.rows) : \E j \in 1..Len(df.rows[r]) : df.rows[r][j] = NONE

\* C15: no consolidated dataset holds a null cell, per document or global,
\* for any number of constituent tables, exactly one included.
C15_NoNullCell ==
    conc_pc = "global" =>
        /\ ~HasNullCell(merged_df)
        /\ ~HasNullCell(final_csv)
        /\ ~HasNullCell(global_csv)

\* The names the suffix counter gives a header: the first occurrence of a
\* name keeps it, the k-th further occurrence becomes name_k.
SuffixCounter(cols) ==
    [j \in 1..Len(cols) |->
        LET k == Cardinality({i \in 1..(j - 1) : cols[i] = cols[j]})
        IN  IF k = 0 THEN cols[j] ELSE PyStr(cols[j]) \o "_" \o NatToStr(k)]

\* C16: before a concatenation the duplicate-column pass leaves each input
\* table with pairwise distinct column names, the first occurrence of a name
\* kept and the k-th further one named name_k.
C16_UniquenessPass ==
    (conc_pc = "merged" /\ Len(dataframes_list) > 1) =>
        \A i \in 1..Len(dataframes_list) :
            IsUsable(dataframes_list[i]) =>
                /\ ~HasDuplicates(DedupColumns(dataframes_list[i]).columns)
                /\ DedupColumns(dataframes_list[i]).columns
                       = SuffixCounter(dataframes_list[i].columns)

\* The concatenation of the per-document consolidation fails on the list.
DocumentConcatFault ==
    /\ Len(dataframes_list) > 1
    /\ Len(ValidTables) > 0
    /\ PdConcat(MapDedup(ValidTables)).raised

\* The concatenation of the global consolidation fails on the list.
GlobalConcatFault == Len(ValidTables) > 0 /\ PdConcat(ValidTables).raised

\* C17: a concatenation fault never surfaces: neither consolidation returns
\* an absent result, and each returns the input table with the most rows.
C17_FaultFallsBackToLargest ==
    conc_pc = "global" =>
        /\ DocumentConcatFault =>
              ~merged_df.none /\ merged_df = Largest(dataframes_list)
        /\ GlobalConcatFault =>
              ~global_csv.none /\ global_csv = Largest(dataframes_list)

\* C18: on every list of datasets that holds a usable one,
\* create_global_csv produces the dataset _concatenate_all_dataframes
\* produces on that list.
C18_GlobalIsPerDocument ==
    (conc_pc = "global" /\ Len(ValidTables) > 0) => global_csv = merged_df

(***************************************************************************)
(* Properties of the batch of uploaded files.                              *)
(***************************************************************************)
\* The positions of the batch whose processing raised.
FailedFiles ==
    {i \in 1..Len(uploaded_files) : process_single_pdf(uploaded_files[i]).raised}

RECURSIVE DatasetsFrom(_)
\* The per-document datasets of the files that did not raise, from
\* position i on, in processing order.
DatasetsFrom(i) ==
    IF i > Len(uploaded_files) THEN <<>>
    ELSE (IF i \in FailedFiles THEN <<>>
          ELSE <<process_single_pdf(uploaded_files[i]).result.merged_dataframe>>)
         \o DatasetsFrom(i + 1)

\* (Document, Catégorie, Nom & Prénom) of every row of df, in row order.
RowKeys(df) == [r \in 1..Len(df.rows) |-> SubSeq(df.rows[r], 1, 3)]

RECURSIVE KeysOf(_)
KeysOf(frames) ==
    IF Len(frames) = 0 THEN <<>>
    ELSE (IF Head(frames).none THEN <<>> ELSE RowKeys(Head(frames)))
         \o KeysOf(Tail(frames))

RECURSIVE IsSubsequence(_, _)
\* a can be obtained from b by deleting elements.
IsSubsequence(a, b) ==
    IF Len(a) = 0 THEN TRUE
    ELSE IF Len(b) = 0 THEN FALSE
    ELSE IF Head(a) = Head(b) THEN IsSubsequence(Tail(a), Tail(b))
    ELSE IsSubsequence(a, Tail(b))

\* C19: the rows of the global dataset follow the processing order: the
\* rows of an earlier-processed document come before those of a later one,
\* each document's rows in their own order.
C19_RowOrderIsProcessingOrder ==
    (batch_pc = "done" /\ ~global_csv_data.none) =>
        IsSubsequence(RowKeys(global_csv_data), KeysOf(DatasetsFrom(1)))

\* The value all_results holds for the name.
ResultOf(name) ==
    all_results[CHOOSE k \in 1..Len(all_results) : all_results[k].key = name].value

\* C20: a file whose processing raises does not stop the batch: every file
\* is gone through, the failed file has the empty result, and the global
\* dataset is the consolidation of the files that did not raise.
C20_BatchIsolation ==
    batch_pc = "done" =>
        /\ file_index = Len(uploaded_files)
        /\ \A i \in FailedFiles :
              ResultOf(uploaded_files[i].name)
                  = create_empty_result(uploaded_files[i].name)
        /\ global_csv_data = create_global_csv(DatasetsFrom(1))

\* The entries of all_results whose csv_data is present.
SuccessEntries ==
    {k \in 1..Len(all_results) : ~all_results[k].value.csv_data.none}

\* The files counted in total_success: processing returned a csv_data.
CountedFiles ==
    {i \in 1..Len(uploaded_files) :
        /\ ~process_single_pdf(uploaded_files[i]).raised
        /\ ~process_single_pdf(uploaded_files[i]).result.csv_data.none}

\* C30: after a batch of n files, all_results has n entries,
\* total_processed is n, total_success is the number of entries with a
\* csv_data, and the global dataset holds the rows of every file counted
\* in total_success.
C30_BatchAccounting ==
    batch_pc = "done" =>
        /\ Len(all_results) = Len(uploaded_files)
        /\ total_processed = Len(uploaded_files)
        /\ total_success = Cardinality(SuccessEntries)
        /\ \A i \in CountedFiles :
              /\ ~global_csv_data.none
              /\ IsSubsequence(
                    RowKeys(process_single_pdf(uploaded_files[i]).result.merged_dataframe),
                    RowKeys(global_csv_data))

C28_HeaderRepairTotal ==
    asm_pc # "category" =>
        /\ ~asm_raised
        /\ Len(df_columns.columns) = Len(df_category.columns)
        /\ \A j \in 1..Len(df_columns.columns) : df_columns.columns[j] # ""

\* The header of the table before the name column is standardized.
HeaderBeforeStandardize == <<"Document", "Catégorie">> \o df_columns.columns

\* The column the standardization is to rename: the first one that matches
\* a pattern, or the third one when none matches; 0 when there is none.
NameColumnPosition ==
    LET h == HeaderBeforeStandardize
    IN  IF \E j \in 1..Len(h) : MatchesNamePattern(h[j])
        THEN CHOOSE j \in 1..Len(h) :
                /\ MatchesNamePattern(h[j])
                /\ \A k \in 1..(j - 1) : ~MatchesNamePattern(h[k])
        ELSE IF Len(h) >= 3 THEN 3 ELSE 0

\* C25: the standardization renames the first column that matches a name
\* pattern, or the third column when none matches, and no other column, so
\* a table of at least 3 columns ends with exactly one "Nom & Prénom".
C25_OneNameColumn ==
    asm_pc \in {"metadata", "prepared"} =>
        /\ \A j \in 1..Len(df_metadata.columns) :
              df_metadata.columns[j] =
                 IF j = NameColumnPosition THEN "Nom & Prénom"
                 ELSE HeaderBeforeStandardize[j]
        /\ Len(df_metadata.columns) >= 3 =>
              Cardinality(ColumnsNamed(df_metadata.columns, "Nom & Prénom")) = 1

(***************************************************************************)
(* Further properties of the table cleaner.                                *)
(***************************************************************************)
\* The table is one the extractor builds: every null cell was replaced by
\* the empty string.
FromTableExtractor(df) == ~df.none /\ ~HasNullCell(df)

\* C26: with remove_empty_rows enabled, the cleaned table of a table that
\* comes from the extractor has no row whose cells are all empty.
C26_NoEmptyRowAfterCleaning ==
    (clean_pc # "extracted" /\ rules.remove_empty_rows /\ FromTableExtractor(df_extracted)) =>
        \A r \in 1..Len(df_clean.rows) :
            \E j \in 1..Len(df_clean.rows[r]) : df_clean.rows[r][j] \notin {"", NONE}

(***************************************************************************)
(* Properties of the A5 metadata parser.                                   *)
(***************************************************************************)
\* The text of the line after its first three space-separated tokens.
RestAfterThirdToken(ligne) ==
    LET tokens == Split(ligne, " ")
    IN  IF Len(tokens) <= 3 THEN ""
        ELSE SubSeq(ligne, Len(tokens[1]) + Len(tokens[2]) + Len(tokens[3]) + 4, Len(ligne))

\* What a "Nombre d'emploi(s) " line is to do to the fields: the job count
\* is the third token; with "Date de forclusion" in the rest, the text
\* before it joins the location and the text after it is the date.
ExpectedAfterNombre(p, ligne) ==
    LET rest == RestAfterThirdToken(ligne)
        at == IndexOf("Date de forclusion", rest, 1)
        before == Strip(SubSeq(rest, 1, at - 1))
        after == Strip(SubSeq(rest, at + Len("Date de forclusion"), Len(rest)))
        counted == [p EXCEPT !.Nombre_demploi = Split(ligne, " ")[3]]
    IN  IF at = 0 THEN counted
        ELSE [counted EXCEPT
                !.Lieu_de_travail =
                    IF before = "" THEN p.Lieu_de_travail
                    ELSE IF Truthy(p.Lieu_de_travail)
                         THEN p.Lieu_de_travail \o " " \o before
                         ELSE before,
                !.Date_de_forclusion = after]

\* C27: a "Nombre d'emploi(s) " line sets the job count to its third token
\* and, when the rest holds "Date de forclusion", appends the text before it
\* to the location already parsed (or sets the location) and sets the
\* forclusion date to the text after it; no other field changes.
C27_NombreLine ==
    [][(/\ a5_pc = "lines"
        /\ ligne_index < Len(lignes)
        /\ ligne_index' = ligne_index + 1
        /\ StartsWith(Strip(lignes[ligne_index + 1]), "Nombre d'emploi(s) "))
       => postes' = ExpectedAfterNombre(postes, Strip(lignes[ligne_index + 1]))]_vars

C27_WitnessAppended ==
    /\ ligne_index = 2
    /\ lignes[1] = "Emploi : Technicien Lieu de travail Lyon Publié sous le n° 24-001"
    /\ lignes[2] = "Nombre d'emploi(s) 1 Cedex 03 Date de forclusion 15/03/2024"
    /\ postes.Nombre_demploi = "1"
    /\ postes.Lieu_de_travail = "Lyon Cedex 03"
    /\ postes.Date_de_forclusion = "15/03/2024"
    /\ postes.Emploi = "Technicien"

(***************************************************************************)
(* Properties of the document loop                                         *)
(***************************************************************************)
\* The extraction primitive faults on a page of the range of category i.
RangeFaults(i) ==
    LET parsed == parse_multiple_ranges(page_ranges_dict[i].value)
    IN  /\ ~parsed.err
        /\ \E k \in 1..Len(parsed.pages) :
              /\ parsed.pages[k] <= Len(pdf_pages)
              /\ PageRaises(pdf_pages[parsed.pages[k]], page_ranges_dict[i].key)

\* category in processing_results
HasRecord(results, category) == \E i \in 1..Len(results) : results[i].key = category

\* processing_results[category]
RecordOf(results, category) ==
    (results[CHOOSE i \in 1..Len(results) : results[i].key = category]).value

\* C22: when the extraction primitive (table extraction, or the text read
\* of an A5 page) faults on a page of the range of a category,
\* extract_ranges gives the empty sequence whatever tables the earlier
\* pages of the range held, no exception leaves the category turn, the
\* category gets a failure record and the loop goes on with the next
\* category.
C22_ExtractionFailsClosed ==
    \A i \in 1..Len(tables_log) :
        RangeFaults(i) =>
            /\ tables_log[i] = <<>>
            /\ combined_log[i] = NoneDF
            /\ HasRecord(processing_results, page_ranges_dict[i].key)
            /\ ~RecordOf(processing_results, page_ranges_dict[i].key).success
            /\ (i = Len(tables_log) => doc_pc # "raised")

\* The first category has a table on page 1 and a fault on page 2 of its
\* range, and the second category has been processed with success.
C22_WitnessPartialDiscarded ==
    /\ Len(tables_log) = 2
    /\ RangeFaults(1)
    /\ Len(extract_ranges_keeps_partial(pdf_pages, page_ranges_dict[1].value,
                                        page_ranges_dict[1].key)) > 0
    /\ tables_log[1] = <<>>
    /\ HasRecord(processing_results, page_ranges_dict[2].key)
    /\ RecordOf(processing_results, page_ranges_dict[2].key).success

\* C21: when process_all_categories has returned, the processing results
\* it returns hold a record with success = false for every category of the
\* page map for which no table was found, also when no category of the
\* document yields data.
C21_EmptyResultsReported ==
    doc_pc = "returned" =>
        \A i \in 1..Len(page_ranges_dict) :
            tables_log[i] = <<>> =>
                /\ HasRecord(doc_return.processing_results, page_ranges_dict[i].key)
                /\ ~RecordOf(doc_return.processing_results, page_ranges_dict[i].key).success

\* The table has a header the repair takes for unnamed.
HasUnnamedHeader(df) == \E j \in 1..Len(df.columns) : IsUnnamed(df.columns[j])

\* The rows left when every table with an unnamed header gives its own
\* first row to the header.
RECURSIVE RowsAfterOwnRepair(_)
RowsAfterOwnRepair(frames) ==
    IF frames = <<>> THEN 0
    ELSE (IF HasUnnamedHeader(Head(frames)) /\ Len(Head(frames).rows) > 0
          THEN Len(Head(frames).rows) - 1
          ELSE Len(Head(frames).rows))
         + RowsAfterOwnRepair(Tail(frames))

\* C24: header repair acts on every extracted raw table on its own, before
\* cleaning and before the row-wise combination: in the repaired table of a
\* category, every raw table with unnamed headers has lost its own first
\* row to the header.
C24_RepairBeforeCombine ==
    \A i \in 1..Len(repaired_log) :
        (IsUsable(combined_log[i]) /\ ~repaired_log[i].raised) =>
            Len(repaired_log[i].df.rows) = RowsAfterOwnRepair(tables_log[i])

\* The categories whose record in the returned results has success = true.
SuccessRecords(results) == {i \in 1..Len(results) : results[i].value.success}

\* The sum of the rows values of the records of the set.
RECURSIVE SumRecordRows(_, _)
SumRecordRows(results, S) ==
    IF S = {} THEN 0
    ELSE LET i == CHOOSE k \in S : TRUE
         IN  results[i].value.rows + SumRecordRows(results, S \ {i})

\* C29: whenever process_all_categories returns a dataset, success_count is
\* the number of categories whose record has success = true, and the rows
\* values of those records add up to the number of rows of the dataset.
C29_ReportMatchesData ==
    (doc_pc = "returned" /\ doc_return.csv_filepath) =>
        /\ doc_return.success_count =
              Cardinality(SuccessRecords(doc_return.processing_results))
        /\ SumRecordRows(doc_return.processing_results,
                         SuccessRecords(doc_return.processing_results))
              = Len(doc_return.merged_df.rows)

=============================================================================
